---------------------------- MODULE Spec2Model ----------------------------
(***************************************************************************)
(* A model of the framing and codec pipeline of the NETCONF client         *)
(* library: the framed stream Reader (reader.go), the message counter      *)
(* (counter.go) and the Encoder with its Method envelope (encoder.go).     *)
(*                                                                         *)
(* Bytes are one-character strings.  Each component has its own            *)
(* specification; a specification leaves the other components' variables   *)
(* at their initial values.                                                *)
(***************************************************************************)
EXTENDS Integers, Sequences, FiniteSets, TLC

(***************************************************************************)
(* Bounds of the model.                                                    *)
(***************************************************************************)
\* longest free part of a message body on the upstream
MaxBody == 1
\* most messages on one upstream
MaxMsgs == 2
\* largest caller buffer handed to Reader.Read
MaxP == 2
\* most tasks that use the counter at once
MaxTasks == 2
\* most calls of the counter's API in one behaviour
MaxCalls == 3
\* width of the counter in bits: the uint64 of the code, scaled down
UintBits == 5
\* size of the Encoder's bufio.Writer: the 4096 bytes of bufio, scaled down
BufSize == 4
\* most Encode calls on one Encoder
MaxEncodes == 2
\* most rpc-error entries in the first reply of a stream
MaxEntries == 2
\* most calls on one Decoder
MaxDecodes == 3
\* most ExecOne calls on one Session
MaxExec == 2
\* most Close calls on one Session
MaxCloses == 3
\* most bytes of whitespace on either side of an enumeration's text
MaxPad == 1
\* how far beyond its table an enumeration's value may lie
MaxBeyond == 2
\* longest ReadTimeout and WriteTimeout of a Config, in ticks
MaxTimeout == 1
\* most Read and Write calls on the connection Dial made
MaxConnOps == 2
\* ticks of time that pass while the connection is used
MaxNow == 1
\* most Read calls on one ReplyReader
MaxReplyReads == 3
\* longest deadline of a DeadlineReader, in ticks
MaxDeadline == 2

(***************************************************************************)
(* Byte-string helpers (package bytes / unicode).                          *)
(***************************************************************************)
Nil == "nil"
EOF == "EOF"

\* encoder.go:12  MessageSeparator = `]]>]]>`
MessageSeparator == <<"]", "]", ">", "]", "]", ">">>

\* unicode.IsSpace on the bytes of the model's alphabet
IsSpace(c) == c \in {" ", "\n"}

Min(a, b) == IF a <= b THEN a ELSE b
SetMax(S) == CHOOSE x \in S : \A y \in S : y <= x
SetMin(S) == CHOOSE x \in S : \A y \in S : x <= y

RECURSIVE TrimRightFunc(_)
\* bytes.TrimRightFunc(s, unicode.IsSpace)
TrimRightFunc(s) ==
    IF s = <<>> THEN s
    ELSE IF IsSpace(s[Len(s)]) THEN TrimRightFunc(SubSeq(s, 1, Len(s) - 1))
    ELSE s

\* bytes.HasSuffix
HasSuffix(s, suffix) ==
    /\ Len(s) >= Len(suffix)
    /\ SubSeq(s, Len(s) - Len(suffix) + 1, Len(s)) = suffix

\* the 0-based offsets at which sep occurs in s
Occurrences(s, sep) ==
    {i \in 0..(Len(s) - Len(sep)) : SubSeq(s, i + 1, i + Len(sep)) = sep}

\* bytes.LastIndex: offset of the last occurrence, -1 if there is none
LastIndex(s, sep) ==
    IF Occurrences(s, sep) = {} THEN -1 ELSE SetMax(Occurrences(s, sep))

\* bytes.Index: offset of the first occurrence, -1 if there is none
Index(s, sep) ==
    IF Occurrences(s, sep) = {} THEN -1 ELSE SetMin(Occurrences(s, sep))

\* bytes.TrimSuffix
TrimSuffix(s, suffix) ==
    IF HasSuffix(s, suffix) THEN SubSeq(s, 1, Len(s) - Len(suffix)) ELSE s

IsPrefix(p, s) == Len(p) <= Len(s) /\ SubSeq(s, 1, Len(p)) = p

RECURSIVE Flatten(_)
Flatten(ss) == IF ss = <<>> THEN <<>> ELSE Head(ss) \o Flatten(Tail(ss))

(***************************************************************************)
(* State.                                                                  *)
(***************************************************************************)
VARIABLES
    \* ---- the upstream of a Reader (Reader.session) ----
    msgs,       \* the messages the server put on the stream, in order
    stream,     \* every byte the upstream will ever deliver
    pos,        \* bytes of stream the upstream has delivered so far
    plan,       \* the non-EOF errors the upstream will still fail with, in order
    \* ---- Reader ----
    buffer,     \* Reader.buffer: the unread bytes of the bytes.Buffer
    done,       \* Reader.done
    rerr,       \* Reader.err
    \* ---- a Read call in progress ----
    pc,         \* "idle", or "loop" while Read is running
    plen,       \* len(p) of the running call
    lerr,       \* the named result err of the running call
    \* ---- what the caller has seen ----
    ret,        \* (n, err) of the last Read that returned
    out,        \* bytes returned by Read since the last Reset
    drains,     \* number of Reset calls so far
    lastOp,     \* the last call that returned: "New", "Read", "Reset"
    firstErr,   \* first non-EOF upstream error since the last Reset
    lastErr,    \* latest non-EOF upstream error since the last Reset
    inStep,     \* TRUE while every Reset so far followed a Read that returned io.EOF
    \* ---- Uint, the counter, and its owning goroutine ----
    val,        \* Uint.val
    ownerPc,    \* "select", "add", "set" (a value was received), "exited"
    snap,       \* the value of u.val the select offers on readChan
    pend,       \* the delta or value received and not yet applied
    ctxDone,    \* the context of the counter was cancelled
    \* ---- the tasks that call the counter ----
    nTasks,     \* tasks 1..nTasks take part
    task,       \* per task: the call in progress and what the task has seen
    sumBegun,   \* sum of the deltas of the Add calls made so far
    sumDone,    \* sum of the deltas of the Add calls that have returned
    setSeen,    \* Set was called
    calls,      \* calls of the counter's API made so far
    stamps,     \* the message-ids WrapMethod has stamped, in order of return
    \* ---- Encoder ----
    wbuf,       \* Encoder.bufWriter: the bytes buffered and not yet written
    werr,       \* Encoder.bufWriter: its sticky write error
    wire,       \* the bytes the underlying io.Writer has accepted
    encRet,     \* the result of the last Encode, "none" before the first
    encIn,      \* the value handed to the last Encode
    sent,       \* the envelopes of the Encode calls that succeeded, in order
    encFailed,  \* an Encode call has failed
    encodes,    \* Encode calls made so far
    \* ---- Decoder ----
    dmsgs,      \* the contents of the messages on the Decoder's stream, in order
    dstream,    \* every byte of the Decoder's stream
    dpos,       \* bytes of dstream the Decoder.bufReader has handed out
    dxerr,      \* the sticky error of the embedded xml.Decoder
    dErrs,      \* Reply.Error of the Reply the last Decode wrote into
    dlog,       \* the calls made on the Decoder, in order, and their results
    \* ---- Session ----
    nExec,      \* ExecOne calls made so far
    call,       \* per ExecOne call: its goroutines, its context, its results
    sTaken,     \* replies the session's decoder has consumed
    rdDone,     \* Reader.done of the session's reader
    sxerr,      \* the sticky error of the session's xml.Decoder
    held,       \* the fields of the Session that are not nil, of those it closes
    closeLog,   \* the Close calls made, in order: what each closed and returned
    \* ---- the enumerations of error.go ----
    ecall,      \* the last call on an enumeration or a ReplyError, and its result
    \* ---- Dial and DeadlineConn ----
    dconn,      \* the connection Dial made, and the calls made on it
    \* ---- NewSession ----
    hs,         \* the construction of a Session: how far it got, what it wrote
    \* ---- DeadlineReader ----
    dr,         \* a DeadlineReader, its Read call and the helper goroutine
    \* ---- ReplyReader ----
    rr          \* a ReplyReader, its session stream and what Read returned

readerVars == <<msgs, stream, pos, plan, buffer, done, rerr, pc, plen, lerr,
                ret, out, drains, lastOp, firstErr, lastErr, inStep>>

counterVars == <<val, ownerPc, snap, pend, ctxDone, nTasks, task, sumBegun,
                 sumDone, setSeen, calls, stamps>>

encoderVars == <<wbuf, werr, wire, encRet, encIn, sent, encFailed, encodes>>

decoderVars == <<dmsgs, dstream, dpos, dxerr, dErrs, dlog>>

sessionVars == <<nExec, call, sTaken, rdDone, sxerr>>

closeVars == <<held, closeLog>>

\* the state of the adapters around the core
laterVars == <<ecall, dconn, hs, dr, rr>>

vars == <<readerVars, counterVars, encoderVars, decoderVars, sessionVars,
          closeVars, laterVars>>

\* what the steps of one component leave alone
notReaderVars == <<counterVars, encoderVars, decoderVars, sessionVars,
                   closeVars, laterVars>>
notCounterVars == <<readerVars, encoderVars, decoderVars, sessionVars,
                    closeVars, laterVars>>
notDecoderVars == <<readerVars, counterVars, encoderVars, sessionVars,
                    closeVars, laterVars>>
notSessionVars == <<readerVars, encoderVars, decoderVars, closeVars,
                    laterVars>>
notCloseVars == <<readerVars, counterVars, encoderVars, decoderVars,
                  sessionVars, laterVars>>
coreVars == <<readerVars, counterVars, encoderVars, decoderVars, sessionVars,
              closeVars>>
notEnumVars == <<coreVars, dconn, hs, dr, rr>>
notConnVars == <<coreVars, ecall, hs, dr, rr>>
notHelloVars == <<coreVars, ecall, dconn, dr, rr>>
notDeadlineVars == <<coreVars, ecall, dconn, hs, rr>>
notReplyVars == <<coreVars, ecall, dconn, hs, dr>>

(***************************************************************************)
(* The upstream byte streams.                                              *)
(***************************************************************************)
BodyAlphabet == {"a", "]", " "}

RECURSIVE SeqsUpTo(_, _)
SeqsUpTo(S, n) ==
    IF n = 0 THEN {<<>>}
    ELSE LET shorter == SeqsUpTo(S, n - 1)
         IN  shorter \cup {Append(s, c) : s \in {t \in shorter : Len(t) = n - 1}, c \in S}

Bodies == SeqsUpTo(BodyAlphabet, MaxBody)
\* whitespace the server writes after a delimiter
Paddings == {<<>>, <<"\n">>}
\* bytes of an unfinished message at the end of the stream
Tails == {<<>>, <<"a">>}

Digit(i) == CASE i = 0 -> "0" [] i = 1 -> "1" [] i = 2 -> "2" [] i = 3 -> "3"
              [] i = 4 -> "4" [] i = 5 -> "5" [] i = 6 -> "6" [] i = 7 -> "7"
              [] i = 8 -> "8" [] i = 9 -> "9"

\* message i of a stream: the first is the free body, later ones start with
\* their number, so that the messages of one stream differ
Message(i, body) == IF i = 1 THEN body ELSE <<Digit(i)>> \o body

Frame(m, pad) == m \o MessageSeparator \o pad

\* the non-EOF errors an upstream read can fail with
UpstreamErrors == {"E1", "E2"}

\* the failures of a faulty upstream, in the order they happen
FailurePlans == {<<>>, <<"E1">>, <<"E1", "E2">>}

\* the fields of a Reader as NewReader leaves them
ReaderFresh ==
    /\ pos = 0
    /\ buffer = <<>>
    /\ done = FALSE
    /\ rerr = Nil
    /\ pc = "idle"
    /\ plen = 0
    /\ lerr = Nil
    /\ ret = [n |-> 0, err |-> Nil]
    /\ out = <<>>
    /\ drains = 0
    /\ lastOp = "New"
    /\ firstErr = Nil
    /\ lastErr = Nil
    /\ inStep = TRUE

\* NewReader over an upstream that carries k or fewer messages and fails as
\* one of the given plans says
ReaderInitOver(maxMsgs, plans) ==
    /\ \E k \in 1..maxMsgs, body \in Bodies, pad \in Paddings, tail \in Tails :
          /\ msgs = [i \in 1..k |-> Message(i, body)]
          /\ stream = Flatten([i \in 1..k |-> Frame(Message(i, body), pad)]) \o tail
    /\ plan \in plans
    /\ ReaderFresh

\* no Reader is in use
ReaderUnused ==
    /\ msgs = <<>>
    /\ stream = <<>>
    /\ plan = <<>>
    /\ ReaderFresh


(***************************************************************************)
(* Reader (reader.go).                                                     *)
(***************************************************************************)
\* bytes.MinRead, the length of Reader.readBuffer
MinRead == 512

\* BufferRead with the bug of reporting no error on an empty buffer
BufferRead_NoEOF(buf, n) ==
    IF buf = <<>>
    THEN [n |-> 0, err |-> Nil, rest |-> <<>>]
    ELSE [n |-> Min(n, Len(buf)), err |-> Nil,
          rest |-> SubSeq(buf, Min(n, Len(buf)) + 1, Len(buf))]

\* bytes.Buffer.Read(p) on the unread bytes buf with len(p) = n: an empty
\* buffer gives (0, io.EOF), or (0, nil) when len(p) = 0
BufferRead(buf, n) ==
    IF buf = <<>>
    THEN [n |-> 0, err |-> IF n = 0 THEN Nil ELSE EOF, rest |-> <<>>]
    ELSE [n |-> Min(n, Len(buf)), err |-> Nil,
          rest |-> SubSeq(buf, Min(n, Len(buf)) + 1, Len(buf))]

\* DetectSeparator with the bug of not trimming the trailing whitespace
DetectSeparator_NoTrim(buf, wasDone) ==
    IF HasSuffix(buf, MessageSeparator)
    THEN [buffer |-> SubSeq(buf, 1, LastIndex(buf, MessageSeparator)),
          done |-> TRUE]
    ELSE [buffer |-> buf, done |-> wasDone]

\* Reader.Read, the end of the loop body: right-trim the buffer, and if it
\* ends with the separator, cut the buffer at the separator's last
\* occurrence and mark the reader done
DetectSeparator(buf, wasDone) ==
    LET bTrim == TrimRightFunc(buf)
    IN  IF HasSuffix(bTrim, MessageSeparator)
        THEN [buffer |-> SubSeq(buf, 1, LastIndex(bTrim, MessageSeparator)),
              done |-> TRUE]
        ELSE [buffer |-> buf, done |-> wasDone]

\* Reader.Read: only non-io.EOF errors are preserved for later reads
PreserveErr(old, e) == IF e # Nil /\ e # EOF THEN e ELSE old

\* ReadErr with the bug of preferring the buffer's own end-of-stream
ReadErr_PreferBuffer(preserved, bufErr) ==
    IF bufErr # Nil THEN bufErr ELSE preserved

\* Reader.Read: the error returned with the bytes copied from the buffer
ReadErr(preserved, bufErr) == IF preserved # Nil THEN preserved ELSE bufErr

\* LoopRuns with the bug of leaving the loop as soon as there are bytes
LoopRuns_UntilBytes == ~done /\ lerr = Nil /\ buffer = <<>>

\* Reader.Read, the condition of its loop: for !r.done && err == nil
LoopRuns == ~done /\ lerr = Nil

\* Reader.Read is entered with a caller buffer of n bytes
ReadCall(n) ==
    /\ pc = "idle"
    /\ pc' = "loop"
    /\ plen' = n
    /\ lerr' = Nil
    /\ UNCHANGED <<msgs, stream, pos, plan, buffer, done, rerr, ret, out,
                   drains, lastOp, firstErr, lastErr, inStep>>
    /\ UNCHANGED notReaderVars

\* one iteration of Read's loop: the upstream delivers the next k bytes with
\* the result e, the bytes are appended and the separator is looked for
SessionRead ==
    /\ pc = "loop"
    /\ LoopRuns
    /\ \E k \in 0..Min(MinRead, Len(stream) - pos),
          e \in {Nil, EOF} \cup UpstreamErrors :
          /\ e = EOF => pos + k = Len(stream)
          /\ e \in UpstreamErrors => plan # <<>> /\ e = Head(plan)
          /\ LET written == buffer \o SubSeq(stream, pos + 1, pos + k)
                 found == DetectSeparator(written, done)
             IN  /\ buffer' = found.buffer
                 /\ done' = found.done
          /\ pos' = pos + k
          /\ lerr' = e
          /\ rerr' = PreserveErr(rerr, e)
          /\ plan' = IF e \in UpstreamErrors THEN Tail(plan) ELSE plan
          /\ firstErr' = IF e \in UpstreamErrors /\ firstErr = Nil THEN e ELSE firstErr
          /\ lastErr' = IF e \in UpstreamErrors THEN e ELSE lastErr
    /\ UNCHANGED <<msgs, stream, pc, plen, ret, out, drains, lastOp, inStep>>
    /\ UNCHANGED notReaderVars

\* the loop has ended: copy from the buffer into p and return
ReadReturn ==
    /\ pc = "loop"
    /\ ~LoopRuns
    /\ LET r == BufferRead(buffer, plen)
       IN  /\ ret' = [n |-> r.n, err |-> ReadErr(rerr, r.err)]
           /\ out' = out \o SubSeq(buffer, 1, r.n)
           /\ buffer' = r.rest
    /\ pc' = "idle"
    /\ lastOp' = "Read"
    /\ plen' = 0
    /\ lerr' = Nil
    /\ UNCHANGED <<msgs, stream, pos, plan, done, rerr, drains,
                   firstErr, lastErr, inStep>>
    /\ UNCHANGED notReaderVars

\* Reset with the bug of keeping the preserved error
Reset_KeepErr ==
    /\ pc = "idle"
    /\ drains < Len(msgs)
    /\ done' = FALSE
    /\ buffer' = <<>>
    /\ out' = <<>>
    /\ drains' = drains + 1
    /\ lastOp' = "Reset"
    /\ firstErr' = Nil
    /\ lastErr' = Nil
    /\ inStep' = (inStep /\ lastOp = "Read" /\ ret.err = EOF)
    /\ UNCHANGED <<msgs, stream, pos, plan, pc, plen, lerr, ret, rerr>>
    /\ UNCHANGED notReaderVars

\* Reader.Reset
Reset ==
    /\ pc = "idle"
    /\ drains < Len(msgs)
    /\ done' = FALSE
    /\ buffer' = <<>>
    /\ rerr' = Nil
    /\ out' = <<>>
    /\ drains' = drains + 1
    /\ lastOp' = "Reset"
    /\ firstErr' = Nil
    /\ lastErr' = Nil
    /\ inStep' = (inStep /\ lastOp = "Read" /\ ret.err = EOF)
    /\ UNCHANGED <<msgs, stream, pos, plan, pc, plen, lerr, ret>>
    /\ UNCHANGED notReaderVars

ReaderNext ==
    \/ \E n \in 0..MaxP : ReadCall(n)
    \/ SessionRead
    \/ ReadReturn
    \/ Reset


(***************************************************************************)
(* Uint, the message counter (counter.go), and WrapMethod (encoder.go).    *)
(*                                                                         *)
(* The counter's value lives in one goroutine, the owner, which serves     *)
(* three unbuffered channels in a select loop.  A call of the API is one   *)
(* channel operation (Add, Set, Value, String) or two (WrapMethod); an     *)
(* operation on an unbuffered channel is a rendezvous of the caller and    *)
(* the owner, modelled as one step of both.                                *)
(***************************************************************************)
\* the values of the counter: uint64 in the code, UintBits bits here
UintMod == 2 ^ UintBits

Tasks == 1..MaxTasks

RECURSIVE FormatUint(_)
\* strconv.FormatUint(v, 10)
FormatUint(v) ==
    IF v < 10 THEN <<Digit(v)>>
    ELSE FormatUint(v \div 10) \o <<Digit(v % 10)>>

\* ApplyAdd with the bug of assigning the delta
ApplyAdd_Assign(v, delta) == delta % UintMod

\* the owner's case delta := <-u.addChan: u.val += delta
ApplyAdd(v, delta) == (v + delta) % UintMod

\* the owner's case val := <-u.setChan: u.val = val
ApplySet(v, value) == value

\* Uint.Add(delta): v.addChan <- delta
AddSteps(delta) == <<[ch |-> "add", v |-> delta]>>

\* Uint.Set(value): v.setChan <- value
SetSteps(value) == <<[ch |-> "set", v |-> value]>>

\* Uint.Value() and Uint.String(): <-v.readChan
ReadSteps == <<[ch |-> "read", v |-> 0]>>

\* WrapMethodSteps with the bug of reading the id before incrementing
WrapMethodSteps_ReadFirst == ReadSteps \o AddSteps(1)

\* WrapMethod: GlobalCounter.Add(1), then GlobalCounter.String()
WrapMethodSteps == AddSteps(1) \o ReadSteps

\* the arguments the tasks call Add and Set with
Deltas == {1, 2}
SetValues == {9, UintMod - 1}

\* the value of the counter once the owner has applied what it received
CounterValue ==
    CASE ownerPc = "add" -> (val + pend) % UintMod
      [] ownerPc = "set" -> pend
      [] OTHER -> val

IdleTask ==
    [op |-> "idle", todo |-> <<>>, got |-> 0, lo |-> 0, c |-> 0, seen |-> 0,
     last |-> "none", prev |-> "none", resVal |-> 0, resStr |-> <<>>]

\* NewUintCounterContext, and n tasks that have called nothing yet
CounterInitWith(n) ==
    /\ val = 0
    /\ ownerPc = "select"
    /\ snap = 0
    /\ pend = 0
    /\ ctxDone = FALSE
    /\ nTasks = n
    /\ task = [t \in Tasks |-> IdleTask]
    /\ sumBegun = 0
    /\ sumDone = 0
    /\ setSeen = FALSE
    /\ calls = 0
    /\ stamps = <<>>

RECURSIVE SumOfAdds(_)
SumOfAdds(steps) ==
    IF steps = <<>> THEN 0
    ELSE (IF Head(steps).ch = "add" THEN Head(steps).v ELSE 0) + SumOfAdds(Tail(steps))

\* task t calls op, which performs the channel operations steps
Call(t, op, steps) ==
    /\ t <= nTasks
    /\ task[t].op = "idle"
    /\ calls < MaxCalls
    /\ calls' = calls + 1
    /\ task' = [task EXCEPT ![t] =
                   [@ EXCEPT !.op = op, !.todo = steps, !.lo = sumDone,
                             !.c = CounterValue, !.seen = Len(stamps)]]
    /\ sumBegun' = sumBegun + SumOfAdds(steps)
    /\ setSeen' = (setSeen \/ op = "Set")
    /\ UNCHANGED <<val, ownerPc, snap, pend, ctxDone, nTasks, sumDone, stamps>>
    /\ UNCHANGED notCounterVars

CallAdd(t, delta) == Call(t, "Add", AddSteps(delta))
CallSet(t, value) == Call(t, "Set", SetSteps(value))
CallValue(t) == Call(t, "Value", ReadSteps)
CallString(t) == Call(t, "String", ReadSteps)
CallWrapMethod(t) == Call(t, "WrapMethod", WrapMethodSteps)

\* task t after the channel operation at the head of its todo list, in which
\* it received got (a read) or sent its value: the call goes on to its next
\* operation, or returns
Advance(r, got, addsDone) ==
    LET rest == Tail(r.todo)
        g == IF Head(r.todo).ch = "read" THEN got ELSE r.got
    IN  IF rest # <<>>
        THEN [r EXCEPT !.todo = rest, !.got = g, !.lo = addsDone]
        ELSE [r EXCEPT !.op = "idle", !.todo = <<>>, !.got = g,
                       !.last = r.op, !.prev = r.last,
                       !.resVal = IF r.op = "Value" THEN g ELSE r.resVal,
                       !.resStr = IF r.op \in {"String", "WrapMethod"}
                                  THEN FormatUint(g) ELSE r.resStr]

\* the stamps once task record r has made the step that Advance describes
Stamped(r, got) ==
    IF r.op = "WrapMethod" /\ Tail(r.todo) = <<>>
    THEN Append(stamps, [id |-> Advance(r, got, 0).resStr, seen |-> r.seen])
    ELSE stamps

Waiting(t, ch) ==
    /\ t <= nTasks
    /\ task[t].op # "idle"
    /\ Head(task[t].todo).ch = ch

\* the select case delta := <-u.addChan meets task t's send
OwnerRecvAdd(t) ==
    /\ ownerPc = "select"
    /\ Waiting(t, "add")
    /\ ownerPc' = "add"
    /\ pend' = Head(task[t].todo).v
    /\ sumDone' = sumDone + Head(task[t].todo).v
    /\ task' = [task EXCEPT ![t] = Advance(@, 0, sumDone')]
    /\ stamps' = Stamped(task[t], 0)
    /\ UNCHANGED <<val, snap, ctxDone, nTasks, sumBegun, setSeen, calls>>
    /\ UNCHANGED notCounterVars

\* the select case val := <-u.setChan meets task t's send
OwnerRecvSet(t) ==
    /\ ownerPc = "select"
    /\ Waiting(t, "set")
    /\ ownerPc' = "set"
    /\ pend' = Head(task[t].todo).v
    /\ task' = [task EXCEPT ![t] = Advance(@, 0, sumDone)]
    /\ UNCHANGED <<val, snap, ctxDone, nTasks, sumBegun, sumDone, setSeen,
                   stamps, calls>>
    /\ UNCHANGED notCounterVars

\* the select case u.readChan <- u.val meets task t's receive
OwnerSend(t) ==
    /\ ownerPc = "select"
    /\ Waiting(t, "read")
    /\ task' = [task EXCEPT ![t] = Advance(@, snap, sumDone)]
    /\ stamps' = Stamped(task[t], snap)
    /\ UNCHANGED <<val, ownerPc, snap, pend, ctxDone, nTasks, sumBegun,
                   sumDone, setSeen, calls>>
    /\ UNCHANGED notCounterVars

\* u.val += delta, and the loop enters the select again, which evaluates the
\* u.val it offers on readChan
OwnerAdd ==
    /\ ownerPc = "add"
    /\ val' = ApplyAdd(val, pend)
    /\ snap' = val'
    /\ pend' = 0
    /\ ownerPc' = "select"
    /\ UNCHANGED <<ctxDone, nTasks, task, sumBegun, sumDone, setSeen, stamps, calls>>
    /\ UNCHANGED notCounterVars

\* u.val = val, and the loop enters the select again
OwnerSet ==
    /\ ownerPc = "set"
    /\ val' = ApplySet(val, pend)
    /\ snap' = val'
    /\ pend' = 0
    /\ ownerPc' = "select"
    /\ UNCHANGED <<ctxDone, nTasks, task, sumBegun, sumDone, setSeen, stamps, calls>>
    /\ UNCHANGED notCounterVars

\* the context of the counter is cancelled
CtxCancel ==
    /\ ~ctxDone
    /\ ctxDone' = TRUE
    /\ UNCHANGED <<val, ownerPc, snap, pend, nTasks, task, sumBegun, sumDone,
                   setSeen, stamps, calls>>
    /\ UNCHANGED notCounterVars

\* OwnerExit with the bug of returning whatever the context says
OwnerExit_Uncancelled ==
    /\ ownerPc = "select"
    /\ ownerPc' = "exited"
    /\ UNCHANGED <<val, snap, pend, ctxDone, nTasks, task, sumBegun, sumDone,
                   setSeen, stamps, calls>>
    /\ UNCHANGED notCounterVars

\* the select case <-ctx.Done(): the owner returns
OwnerExit ==
    /\ ownerPc = "select"
    /\ ctxDone
    /\ ownerPc' = "exited"
    /\ UNCHANGED <<val, snap, pend, ctxDone, nTasks, task, sumBegun, sumDone,
                   setSeen, stamps, calls>>
    /\ UNCHANGED notCounterVars

\* the owner's select meets the channel operation that task t waits in
Serve(t) == OwnerRecvAdd(t) \/ OwnerRecvSet(t) \/ OwnerSend(t)

\* the owner applies what it received and enters the select again
OwnerApply == OwnerAdd \/ OwnerSet

\* the number of calls the tasks make where the owner can return
ServeCalls == MaxCalls - 1

\* tasks that make up to ServeCalls calls of Add(1), Set(9), Value and String
ServeNext ==
    \/ \E t \in Tasks : calls < ServeCalls /\ CallAdd(t, 1)
    \/ \E t \in Tasks : calls < ServeCalls /\ CallSet(t, 9)
    \/ \E t \in Tasks : calls < ServeCalls /\ CallValue(t)
    \/ \E t \in Tasks : calls < ServeCalls /\ CallString(t)
    \/ \E t \in Tasks : Serve(t)
    \/ OwnerApply
    \/ CtxCancel
    \/ OwnerExit

\* tasks that call Add, Set, Value and String
CounterNext ==
    \/ \E t \in Tasks, delta \in Deltas : CallAdd(t, delta)
    \/ \E t \in Tasks, value \in SetValues : CallSet(t, value)
    \/ \E t \in Tasks : CallValue(t)
    \/ \E t \in Tasks : CallString(t)
    \/ \E t \in Tasks : OwnerRecvAdd(t)
    \/ \E t \in Tasks : OwnerRecvSet(t)
    \/ \E t \in Tasks : OwnerSend(t)
    \/ OwnerAdd
    \/ OwnerSet
    \/ CtxCancel
    \/ OwnerExit

\* tasks that call WrapMethod, and Value and Set
WrapMethodNext ==
    \/ \E t \in Tasks : CallWrapMethod(t)
    \/ \E t \in Tasks, value \in SetValues : CallSet(t, value)
    \/ \E t \in Tasks : CallValue(t)
    \/ \E t \in Tasks : OwnerRecvAdd(t)
    \/ \E t \in Tasks : OwnerRecvSet(t)
    \/ \E t \in Tasks : OwnerSend(t)
    \/ OwnerAdd
    \/ OwnerSet
    \/ CtxCancel
    \/ OwnerExit



(***************************************************************************)
(* Encoder (encoder.go).                                                   *)
(*                                                                         *)
(* NewEncoder wraps the io.Writer in a bufio.Writer and hands that to      *)
(* xml.NewEncoder, whose own bufio.NewWriter returns the same bufio.Writer *)
(* (it is already one of the default size): the Encoder has one buffer.    *)
(* A byte of the model stands for a run of bytes of the XML text.          *)
(***************************************************************************)
\* the error of a failed write, and of a value xml cannot marshal
ErrWrite == "EW"
ErrMarshal == "EX"

\* what a value handed to Encode holds: something xml can marshal, or not
PayloadKinds == {"p", "bad"}

\* the bare payloads handed to Encode
Payloads == {[isMethod |-> FALSE, id |-> <<>>, body |-> b] : b \in PayloadKinds}

\* the envelopes (*Method) the caller built before calling Encode
Methods == {[isMethod |-> TRUE, id |-> <<"7">>, body |-> b] : b \in PayloadKinds}

\* IsMethod with the bug of taking no value for an envelope
IsMethod_Never(v) == FALSE

\* the type switch of Encode
IsMethod(v) == v.isMethod

\* the envelope WrapMethod builds around a payload
Wrap(v, id) == [isMethod |-> TRUE, id |-> id, body |-> v.body]

\* the text xml.Encoder writes for an envelope, piece by piece
StartTag(m) == <<"<">> \o m.id \o <<">">>
Element(m) == <<m.body>>
EndTag(m) == <<"/">>

\* the complete serialized rpc element
RpcBytes(m) == StartTag(m) \o Element(m) \o EndTag(m)

\* io.Writer.Write(p) on the underlying writer, which fails once it has
\* accepted cap more bytes (never, if cap = -1)
UnderWrite(w, p) ==
    IF w.cap = -1 \/ Len(p) <= w.cap
    THEN [w EXCEPT !.wire = @ \o p,
                   !.cap = IF @ = -1 THEN -1 ELSE @ - Len(p)]
    ELSE [w EXCEPT !.wire = @ \o SubSeq(p, 1, w.cap),
                   !.cap = 0,
                   !.n = w.cap,
                   !.err = ErrWrite]

\* bufio.Writer.Flush
Flush(w) ==
    IF w.err # Nil \/ w.buf = <<>> THEN w
    ELSE LET u == UnderWrite([w EXCEPT !.n = Len(w.buf)], w.buf)
         IN  IF u.err # Nil
             THEN [u EXCEPT !.buf = SubSeq(w.buf, u.n + 1, Len(w.buf))]
             ELSE [u EXCEPT !.buf = <<>>]

Available(w) == BufSize - Len(w.buf)

RECURSIVE BufWrite(_, _)
\* bufio.Writer.Write(p)
BufWrite(w, p) ==
    IF Len(p) > Available(w) /\ w.err = Nil
    THEN IF w.buf = <<>>
         THEN \* large write, empty buffer: written directly from p
              LET u == UnderWrite([w EXCEPT !.n = Len(p)], p)
              IN  BufWrite(u, SubSeq(p, u.n + 1, Len(p)))
         ELSE LET k == Available(w)
                  filled == [w EXCEPT !.buf = @ \o SubSeq(p, 1, k)]
              IN  BufWrite(Flush(filled), SubSeq(p, k + 1, Len(p)))
    ELSE IF w.err # Nil THEN w
    ELSE [w EXCEPT !.buf = @ \o p]

\* bufio.Writer.WriteByte(c)
BufWriteByte(w, c) ==
    IF w.err # Nil THEN w
    ELSE LET f == IF Available(w) <= 0 THEN Flush(w) ELSE w
         IN  IF f.err # Nil THEN f ELSE [f EXCEPT !.buf = Append(@, c)]

\* xml.Encoder.Encode(method): marshal into the buffer, then flush it; a
\* value xml cannot marshal ends the call with what was written before it
\* left in the buffer
XmlEncode(w, m) ==
    LET started == BufWrite(w, StartTag(m))
    IN  IF m.body = "bad" THEN [started EXCEPT !.ret = ErrMarshal]
        ELSE LET f == Flush(BufWrite(BufWrite(started, Element(m)), EndTag(m)))
             IN  [f EXCEPT !.ret = f.err]

\* WriteSep with the bug of writing the newline before the separator
WriteSep_NewlineFirst(w) ==
    LET a == BufWriteByte(w, "\n")
        b == IF a.err # Nil THEN a ELSE BufWrite(a, MessageSeparator)
        c == IF b.err # Nil THEN b ELSE Flush(b)
    IN  [c EXCEPT !.ret = c.err]

\* Encoder.WriteSep: the separator, a newline, and a flush, each only if
\* what came before it succeeded
WriteSep(w) ==
    LET a == BufWrite(w, MessageSeparator)
        b == IF a.err # Nil THEN a ELSE BufWriteByte(a, "\n")
        c == IF b.err # Nil THEN b ELSE Flush(b)
    IN  [c EXCEPT !.ret = c.err]

\* Encoder.Encode after the envelope is chosen
EncodeMethod(w, m) ==
    LET x == XmlEncode(w, m)
    IN  IF x.ret # Nil THEN x ELSE WriteSep(x)

\* NewEncoder
EncoderFresh ==
    /\ wbuf = <<>>
    /\ werr = Nil
    /\ wire = <<>>
    /\ encRet = "none"
    /\ encIn = [isMethod |-> FALSE, id |-> <<>>, body |-> "none"]
    /\ sent = <<>>
    /\ encFailed = FALSE
    /\ encodes = 0

\* Encoder.Encode(v), on an underlying writer that fails once it has
\* accepted cap more bytes (never, if cap = -1)
Encode(v, cap) ==
    /\ encodes < MaxEncodes
    /\ encodes' = encodes + 1
    /\ LET wrapped == ~IsMethod(v)
           newVal == IF wrapped THEN ApplyAdd(val, 1) ELSE val
           method == IF wrapped THEN Wrap(v, FormatUint(newVal)) ELSE v
           w0 == [buf |-> wbuf, err |-> werr, wire |-> wire, cap |-> cap,
                  n |-> 0, ret |-> Nil]
           w == EncodeMethod(w0, method)
       IN  /\ val' = newVal
           /\ snap' = newVal
           /\ wbuf' = w.buf
           /\ werr' = w.err
           /\ wire' = w.wire
           /\ encRet' = w.ret
           /\ encIn' = v
           /\ sent' = IF w.ret = Nil THEN Append(sent, method) ELSE sent
           /\ encFailed' = (encFailed \/ w.ret # Nil)
    /\ UNCHANGED <<ownerPc, pend, ctxDone, nTasks, task, sumBegun, sumDone,
                   setSeen, calls, stamps>>
    /\ UNCHANGED <<readerVars, decoderVars, sessionVars, closeVars, laterVars>>

\* the underlying writers: one that never fails (-1), and those that fail
\* once they have accepted so many more bytes, up to the length of a frame
WriterCaps ==
    -1 .. (Len(RpcBytes(CHOOSE m \in Methods : TRUE)) + Len(MessageSeparator) + 1)

EncoderNext ==
    \E v \in Payloads \cup Methods, cap \in WriterCaps : Encode(v, cap)


(***************************************************************************)
(* Decoder (decoder.go) and the error severities (error.go).               *)
(*                                                                         *)
(* NewDecoder wraps the io.Reader in a bufio.Reader and hands that to      *)
(* xml.NewDecoder, which reads bytes from it one at a time: the xml        *)
(* decoder and SkipSep consume one stream, at one position.                *)
(*                                                                         *)
(* A message of the model is "<", its content and ">": the element with    *)
(* its start and end tags.  Each byte of the content of a reply stands for *)
(* one rpc-error element, its letter for the text of its error-severity.   *)
(* Lines are shorter than the bufio buffer.                                *)
(***************************************************************************)
ErrorSeverityZero == 0
ErrorSeverityError == 1
ErrorSeverityUnknown == 2
ErrorSeverityWarning == 3

\* the table of severity texts, indexed from ErrorSeverityZero
errorSeverityStringArray == <<"", "error", "unknown", "warning">>

\* the error-severity text of the rpc-error element a content byte stands for
SeverityText(c) ==
    CASE c = "e" -> "error"
      [] c = "w" -> " Warning\n"
      [] c = "u" -> "unknown"
      [] c = "f" -> "fatal"

\* bytes.ToLower(bytes.TrimSpace(text)) on the texts of the model
ToLowerTrimSpace(text) == IF text = " Warning\n" THEN "warning" ELSE text

\* the result of a call on the Decoder: nil, io.EOF, an xml syntax error, an
\* UnmarshalTextError, or a reference to entry idx of the Reply's Error list
Ret(kind, idx) == [kind |-> kind, idx |-> idx]
RetNil == Ret("nil", 0)

\* ErrorSeverity.UnmarshalText: search the sorted table for the lower-cased,
\* trimmed text; on a miss set ErrorSeverityUnknown and return an error
UnmarshalText(text) ==
    LET sText == ToLowerTrimSpace(text)
        hits == {i \in 1..Len(errorSeverityStringArray) :
                    errorSeverityStringArray[i] = sText}
    IN  IF hits # {}
        THEN [es |-> (CHOOSE i \in hits : TRUE) - 1, err |-> RetNil]
        ELSE [es |-> ErrorSeverityUnknown, err |-> Ret("UnmarshalTextError", 0)]

\* the offsets after from at which byte c occurs in s
After(s, from, c) == {i \in (from + 1)..Len(s) : s[i] = c}

RECURSIVE TrimLeftSpace(_)
TrimLeftSpace(s) ==
    IF s # <<>> /\ IsSpace(s[1]) THEN TrimLeftSpace(Tail(s)) ELSE s

\* bytes.TrimSpace
TrimSpace(s) == TrimLeftSpace(TrimRightFunc(s))

\* bufio.Reader.ReadSlice('\n') at offset from: the bytes through the next
\* newline, or the rest of the stream with io.EOF
ReadSlice(s, from) ==
    IF After(s, from, "\n") = {}
    THEN [s |-> SubSeq(s, from + 1, Len(s)), err |-> Ret("EOF", 0), pos |-> Len(s)]
    ELSE LET nl == SetMin(After(s, from, "\n"))
         IN  [s |-> SubSeq(s, from + 1, nl), err |-> RetNil, pos |-> nl]

\* the text "]]>", which xml refuses outside a CDATA section
CDataEnd == <<"]", "]", ">">>

\* xml.Decoder.Decode at offset from, up to the element it is to unmarshal:
\* skip character data up to the next start tag and read the element
\* through its end tag.  The result has the element's content, the error,
\* the offset reached and the offset of the start tag.
XmlElement(s, from, sticky) ==
    IF sticky # RetNil
    THEN [content |-> <<>>, err |-> sticky, pos |-> from, at |-> from]
    ELSE LET starts == After(s, from, "<")
             upto == IF starts = {} THEN Len(s) ELSE SetMin(starts) - 1
             chardata == SubSeq(s, from + 1, upto)
         IN  IF Occurrences(chardata, CDataEnd) # {}
             THEN [content |-> <<>>, err |-> Ret("SyntaxError", 0), at |-> from,
                   pos |-> from + Index(chardata, CDataEnd) + Len(CDataEnd)]
             ELSE IF starts = {}
             THEN [content |-> <<>>, err |-> Ret("EOF", 0), pos |-> Len(s),
                   at |-> Len(s)]
             ELSE IF After(s, upto + 1, ">") = {}
             THEN [content |-> <<>>, err |-> Ret("SyntaxError", 0), pos |-> Len(s),
                   at |-> upto + 1]
             ELSE LET gt == SetMin(After(s, upto + 1, ">"))
                  IN  [content |-> SubSeq(s, upto + 2, gt - 1), err |-> RetNil,
                       pos |-> gt, at |-> upto + 1]

\* the errors xml.Decoder keeps and returns from every later call
Sticky(err) == IF err.kind \in {"EOF", "SyntaxError"} THEN err ELSE RetNil

RECURSIVE UnmarshalErrors(_, _, _, _)
\* xml unmarshalling the rpc-error elements content[k..] of the element at
\* offset at onto the Error slice list: each is appended once its fields are
\* unmarshalled; one whose UnmarshalText fails is dropped and ends the
\* decoding there.  An entry is known by its offset in the stream.
UnmarshalErrors(content, k, at, list) ==
    IF k > Len(content) THEN [list |-> list, err |-> RetNil, read |-> Len(content)]
    ELSE LET u == UnmarshalText(SeverityText(content[k]))
         IN  IF u.err # RetNil THEN [list |-> list, err |-> u.err, read |-> k]
             ELSE UnmarshalErrors(content, k + 1, at,
                      Append(list, [Severity |-> u.es, at |-> at + k]))

\* Decoder.Decode, the loop over reply.Error: a reference to the first entry
\* of severity error, nil if there is none
FirstError(list) ==
    LET errs == {i \in 1..Len(list) : list[i].Severity = ErrorSeverityError}
    IN  IF errs = {} THEN RetNil ELSE Ret("ReplyError", SetMin(errs))

\* SkipSepFrom with the bug of discarding one line, whatever it holds
SkipSepFrom_OneLine(s, from) ==
    LET r == ReadSlice(s, from) IN [err |-> r.err, pos |-> r.pos]

RECURSIVE SkipSepFrom(_, _)
\* Decoder.SkipSep from offset from: read lines until one is, trimmed, the
\* separator; an error of ReadSlice ends it, whatever was read with it
SkipSepFrom(s, from) ==
    LET r == ReadSlice(s, from)
    IN  IF r.err # RetNil THEN [err |-> r.err, pos |-> r.pos]
        ELSE IF TrimSpace(r.s) = MessageSeparator THEN [err |-> RetNil, pos |-> r.pos]
        ELSE SkipSepFrom(s, r.pos)

\* the letters of the rpc-error elements of a reply
EntryChars == {"e", "w", "u", "f"}

\* whitespace between the end tag of a message and its delimiter
Gaps == {<<>>, <<"\n">>}

\* a message on the stream: its element, the delimiter line, blank lines
DFrame(content, gap, blank) ==
    [content |-> content,
     frame |-> <<"<">> \o content \o <<">">> \o gap \o MessageSeparator
                  \o <<"\n">> \o blank]

\* the offset at which message i of the stream starts
FrameOffset(i) == Len(Flatten([j \in 1..(i - 1) |-> dmsgs[j].frame]))

\* the Reply a Decode call decodes into: the one the caller used before,
\* a new one, or the one Decode wraps around a value that is no Reply
Targets == {"reused", "fresh", "data"}

\* NewDecoder over a stream of the given messages
NewDecoder(messages) ==
    /\ dmsgs = messages
    /\ dstream = Flatten([j \in 1..Len(messages) |-> messages[j].frame])
    /\ dpos = 0
    /\ dxerr = RetNil
    /\ dErrs = <<>>
    /\ dlog = <<>>

\* no Decoder is in use
DecoderUnused == NewDecoder(<<>>)

\* what the log keeps of a call
Logged(op, target, result, value, errs, reached) ==
    Append(dlog, [op |-> op, target |-> target, from |-> dpos, ret |-> result,
                  val |-> value, errs |-> errs, pos |-> reached])

\* Decoder.Decode(v)
Decode(target) ==
    /\ Len(dlog) < MaxDecodes
    /\ LET list == IF target = "reused" THEN dErrs ELSE <<>>
           x == XmlElement(dstream, dpos, dxerr)
           u == UnmarshalErrors(x.content, 1, x.at, list)
           result == IF x.err # RetNil THEN x.err
                  ELSE IF u.err # RetNil THEN u.err
                  ELSE FirstError(u.list)
           errs == IF x.err # RetNil THEN list ELSE u.list
           reached == IF x.err = RetNil /\ u.err # RetNil THEN x.at + u.read ELSE x.pos
       IN  /\ dErrs' = errs
           /\ dpos' = reached
           /\ dxerr' = Sticky(x.err)
           /\ dlog' = Logged("Decode", target, result, x.content, errs, reached)
    /\ UNCHANGED <<dmsgs, dstream>>
    /\ UNCHANGED notDecoderVars

\* Decoder.DecodeHello(h)
DecodeHello ==
    /\ Len(dlog) < MaxDecodes
    /\ LET x == XmlElement(dstream, dpos, dxerr)
           sk == SkipSepFrom(dstream, x.pos)
           result == IF x.err # RetNil THEN x.err ELSE sk.err
           reached == IF x.err # RetNil THEN x.pos ELSE sk.pos
       IN  /\ dpos' = reached
           /\ dxerr' = Sticky(x.err)
           /\ dlog' = Logged("DecodeHello", "hello", result, x.content, <<>>, reached)
    /\ UNCHANGED <<dmsgs, dstream, dErrs>>
    /\ UNCHANGED notDecoderVars

\* Decoder.SkipSep()
SkipSep ==
    /\ Len(dlog) < MaxDecodes
    /\ LET sk == SkipSepFrom(dstream, dpos)
       IN  /\ dpos' = sk.pos
           /\ dlog' = Logged("SkipSep", "none", sk.err, <<>>, <<>>, sk.pos)
    /\ UNCHANGED <<dmsgs, dstream, dxerr, dErrs>>
    /\ UNCHANGED notDecoderVars

DecoderNext ==
    \/ \E target \in Targets : Decode(target)
    \/ SkipSep

HelloNext == DecodeHello

(***************************************************************************)
(* Session.ExecOne (session.go).                                           *)
(*                                                                         *)
(* ExecOne starts an orchestrator goroutine, which starts the encode       *)
(* goroutine when it enters its first select and the decode goroutine when *)
(* it enters its second.  Each goroutine sends at most one error on its    *)
(* own buffered channel and closes it.  A goroutine that is blocked takes  *)
(* no step.  The session was made by NewSession, whose DecodeHello has     *)
(* reset the reader.                                                       *)
(***************************************************************************)
Calls == 1..MaxExec

\* ctx.Err() of a cancelled context
Canceled == "Canceled"

\* what the server answers: a reply with data, or one with an rpc-error of
\* severity error
ReplyKinds == {"data", "error"}

\* a call that was not made yet
NoCall ==
    [orch |-> "idle", enc |-> "none", dec |-> "none", cancelled |-> FALSE,
     res |-> "pending", encRes |-> "pending", decRes |-> "pending",
     wrote |-> <<>>, method |-> 0, reply |-> 0, got |-> 0,
     serial |-> FALSE, inStage |-> FALSE, endedAt |-> "none", pre |-> FALSE,
     encCh |-> <<>>, decCh |-> <<>>, errCh |-> <<>>]

\* NewSession, after the hello exchange
SessionFresh ==
    /\ nExec = 0
    /\ call = [c \in Calls |-> NoCall]
    /\ sTaken = 0
    /\ rdDone = FALSE
    /\ sxerr = Nil

\* CtxCheck with the bug of going on whatever the context says
CtxCheck_Ignored(cancelled, goOn) == goOn

\* the select on ctx.Done() with a default case, in the encode and decode
\* goroutines: the context's error if it is cancelled, else go on
CtxCheck(cancelled, goOn) == IF cancelled THEN Canceled ELSE goOn

\* the capacity of the channels made by goEncodDecodeOne, goEncodeOne and
\* goDecodeOne: make(chan error, 1)
ResultChanCap == 1

\* SendEnds on a channel that has no room
SendEnds_Unbuffered(cap, queued) == "sending"

\* a goroutine at `errChan <- err` that returns after it, on a channel of
\* capacity cap that holds queued values and has no receiver waiting: it
\* goes on and ends if there is room, else it stays in the send
SendEnds(cap, queued) == IF queued < cap THEN "done" ELSE "sending"

\* the encode goroutine ends with err: it sends an error on its channel and
\* returns, and the deferred close closes the channel
EncEnds(rec, err) ==
    [rec EXCEPT !.encRes = err,
                !.encCh = IF err = Nil THEN @ ELSE Append(@, err),
                !.enc = IF err = Nil THEN "done"
                        ELSE SendEnds(ResultChanCap, Len(rec.encCh))]

\* the decode goroutine ends with err, in the same way
DecEnds(rec, err) ==
    [rec EXCEPT !.decRes = err,
                !.decCh = IF err = Nil THEN @ ELSE Append(@, err),
                !.dec = IF err = Nil THEN "done"
                        ELSE SendEnds(ResultChanCap, Len(rec.decCh))]

\* the orchestrator ends with err in the select of the given stage, in the
\* same way
OrchEnds(rec, err, stage) ==
    [rec EXCEPT !.res = err, !.endedAt = stage,
                !.errCh = IF err = Nil THEN @ ELSE Append(@, err),
                !.orch = IF err = Nil THEN "done"
                         ELSE SendEnds(ResultChanCap, Len(rec.errCh))]

\* the calls whose complete request the server has received
Requests == {c \in Calls : call[c].wrote = <<"rpc", "sep">>}

\* ExecOne(ctx, method, reply), with a context that is or is not cancelled
\* already: the orchestrator enters its first select and goEncodeOne wraps
\* the method, checks the context and calls the encoder
ExecOne(c, pre) ==
    /\ c = nExec + 1
    /\ nExec' = c
    /\ call' = [call EXCEPT ![c] =
          LET begun == [NoCall EXCEPT
                          !.orch = "sel1",
                          !.cancelled = pre,
                          !.pre = pre,
                          !.enc = "encoding",
                          !.serial = (c = 1 \/ call[c - 1].orch = "done")]
          IN  IF CtxCheck(pre, "pending") = "pending" THEN begun
              ELSE EncEnds(begun, CtxCheck(pre, "pending"))]
    /\ val' = ApplyAdd(val, 1)
    /\ snap' = val'
    /\ UNCHANGED <<ownerPc, pend, ctxDone, nTasks, task, sumBegun, sumDone,
                   setSeen, calls, stamps>>
    /\ UNCHANGED <<sTaken, rdDone, sxerr>>
    /\ UNCHANGED notSessionVars

\* goEncodeOne: s.encoder.Encode(m) returns, and then the context is checked
EncodeReturn(c, ok) ==
    /\ call[c].enc = "encoding"
    /\ call' = [call EXCEPT ![c] =
          LET written == [@ EXCEPT !.wrote = Append(@, "rpc")]
          IN  IF ~ok THEN EncEnds(@, "EW")
              ELSE IF CtxCheck(call[c].cancelled, "pending") = "pending"
              THEN [written EXCEPT !.enc = "sep"]
              ELSE EncEnds(written, CtxCheck(call[c].cancelled, "pending"))]
    /\ UNCHANGED <<nExec, sTaken, rdDone, sxerr>>
    /\ UNCHANGED <<notSessionVars, counterVars>>

\* goEncodeOne: s.WriteSep() returns and the goroutine ends
WriteSepReturn(c, ok) ==
    /\ call[c].enc = "sep"
    /\ call' = [call EXCEPT ![c] =
          IF ok THEN EncEnds([@ EXCEPT !.wrote = Append(@, "sep")], Nil)
          ELSE EncEnds(@, "EW")]
    /\ UNCHANGED <<nExec, sTaken, rdDone, sxerr>>
    /\ UNCHANGED <<notSessionVars, counterVars>>

\* AfterEncode with the bug of going on to decode whatever the encoding gave
AfterEncode_Always(err) == "sel2"

\* the orchestrator after its first select received err from the encode
\* goroutine: an error ends the call, nil takes it to the second select
AfterEncode(err) == IF err # Nil THEN "done" ELSE "sel2"

\* the first select of the orchestrator receives from the encode goroutine's
\* channel; if it goes on, it enters the second select and goDecodeOne wraps
\* its argument, checks the context and calls the decoder
OrchEncoded(c) ==
    /\ call[c].orch = "sel1"
    /\ call[c].enc = "done"
    /\ call' = [call EXCEPT ![c] =
          IF AfterEncode(call[c].encRes) = "done"
          THEN OrchEnds(@, call[c].encRes, "encode")
          ELSE IF CtxCheck(call[c].cancelled, "pending") = "pending"
          THEN [@ EXCEPT !.orch = "sel2", !.dec = "decoding"]
          ELSE DecEnds([@ EXCEPT !.orch = "sel2"],
                       CtxCheck(call[c].cancelled, "pending"))]
    /\ UNCHANGED <<nExec, sTaken, rdDone, sxerr>>
    /\ UNCHANGED <<notSessionVars, counterVars>>

\* either select of the orchestrator receives from ctx.Done()
OrchCancelled(c) ==
    /\ call[c].orch \in {"sel1", "sel2"}
    /\ call[c].cancelled
    /\ call' = [call EXCEPT ![c] =
          OrchEnds(@, Canceled,
                   IF call[c].orch = "sel1" THEN "encode" ELSE "decode")]
    /\ UNCHANGED <<nExec, sTaken, rdDone, sxerr>>
    /\ UNCHANGED <<notSessionVars, counterVars>>

\* the second select of the orchestrator receives from the decode
\* goroutine's channel
OrchDecoded(c) ==
    /\ call[c].orch = "sel2"
    /\ call[c].dec = "done"
    /\ call' = [call EXCEPT ![c] = OrchEnds(@, call[c].decRes, "decode")]
    /\ UNCHANGED <<nExec, sTaken, rdDone, sxerr>>
    /\ UNCHANGED <<notSessionVars, counterVars>>

\* the argument the orchestrator hands to goDecodeOne
DecodeArg == "method"

\* the caller's objects after reply k of the given kind was decoded into the
\* argument of goDecodeOne: its rpc-errors go to the Reply wrapped around
\* the argument, its data into the argument
Decoded(rec, k, kind) ==
    IF kind # "data" THEN rec
    ELSE IF DecodeArg = "method" THEN [rec EXCEPT !.method = k]
    ELSE [rec EXCEPT !.reply = k]

\* what a call of the session's decoder may meet: a reply with data, a
\* reply with an rpc-error of severity error, or a failing read of the pipe
DecodeOutcomes == ReplyKinds \cup {"ER"}

\* goDecodeOne: s.decoder.Decode(r) returns, the reply's errors are scanned
\* and the goroutine ends.  The xml decoder reads through the session's
\* Reader: an error it met before is returned again; a Reader that is done
\* gives end-of-stream; a read of the pipe may fail; else the next reply is
\* read, once the server has one to send, and the Reader is done.
DecodeReturn(c, outcome) ==
    /\ call[c].dec = "decoding"
    /\ IF sxerr # Nil
       THEN /\ outcome = "data"
            /\ call' = [call EXCEPT ![c] = DecEnds(@, sxerr)]
            /\ UNCHANGED <<sTaken, rdDone, sxerr>>
       ELSE IF rdDone
       THEN /\ outcome = "data"
            /\ call' = [call EXCEPT ![c] = DecEnds(@, EOF)]
            /\ sxerr' = EOF
            /\ UNCHANGED <<sTaken, rdDone>>
       ELSE IF outcome = "ER"
       THEN /\ call' = [call EXCEPT ![c] = DecEnds(@, "ER")]
            /\ sxerr' = "ER"
            /\ UNCHANGED <<sTaken, rdDone>>
       ELSE /\ sTaken < Cardinality(Requests)
            /\ sTaken' = sTaken + 1
            /\ rdDone' = TRUE
            /\ call' = [call EXCEPT ![c] =
                  DecEnds([Decoded(@, sTaken + 1, outcome) EXCEPT
                              !.got = sTaken + 1],
                          IF outcome = "error" THEN "ReplyError" ELSE Nil)]
            /\ sxerr' = sxerr
    /\ nExec' = nExec
    /\ UNCHANGED <<notSessionVars, counterVars>>

\* the caller cancels the context of a call that has not delivered yet
Cancel(c) ==
    /\ call[c].orch \in {"sel1", "sel2"}
    /\ ~call[c].cancelled
    /\ call' = [call EXCEPT ![c].cancelled = TRUE,
          ![c].inStage = \/ call[c].orch = "sel1" /\ call[c].enc # "done"
                         \/ call[c].orch = "sel2" /\ call[c].dec # "done"]
    /\ UNCHANGED <<nExec, sTaken, rdDone, sxerr>>
    /\ UNCHANGED <<notSessionVars, counterVars>>

SessionNext ==
    \/ \E c \in Calls :
          \/ \E pre \in BOOLEAN : ExecOne(c, pre)
          \/ \E ok \in BOOLEAN : EncodeReturn(c, ok)
          \/ \E ok \in BOOLEAN : WriteSepReturn(c, ok)
          \/ OrchEncoded(c)
          \/ OrchCancelled(c)
          \/ OrchDecoded(c)
          \/ \E outcome \in DecodeOutcomes : DecodeReturn(c, outcome)
          \/ Cancel(c)

(***************************************************************************)
(* Session.Close (session.go).                                             *)
(***************************************************************************)
\* the fields Close closes, in the order of its if statements
Resources == <<"writeCloser", "sshSession", "sshClient">>

ResourceSet == {Resources[k] : k \in 1..Len(Resources)}

\* the error a failing Close of each resource returns
CloseError ==
    [writeCloser |-> "EPIPE", sshSession |-> "ESESSION", sshClient |-> "ECLIENT"]

\* a Session as NewSession returns it: no field is nil
NewSession == ResourceSet

\* a Session nobody has called Close on
CloseUnused ==
    /\ held = NewSession
    /\ closeLog = <<>>

\* CloseResult as the earlier variant computed it: the ssh session's error
\* takes precedence
CloseResult_SessionFirst(e) ==
    IF e.sshSession # Nil THEN e.sshSession
    ELSE IF e.writeCloser # Nil THEN e.writeCloser
    ELSE e.sshClient

\* the return statements of Close, over the three error variables
CloseResult(e) ==
    IF e.writeCloser # Nil THEN e.writeCloser
    ELSE IF e.sshSession # Nil THEN e.sshSession
    ELSE e.sshClient

\* Close(), where the Close calls of the resources in fails return an error:
\* each field that is not nil is closed, in order, into its own variable
Close(fails) ==
    /\ Len(closeLog) < MaxCloses
    /\ fails \subseteq held
    /\ LET e == [r \in ResourceSet |->
                    IF r \in held /\ r \in fails THEN CloseError[r] ELSE Nil]
       IN  closeLog' = Append(closeLog,
              [tried |-> SelectSeq(Resources, LAMBDA r : r \in held),
               errs |-> e,
               ret |-> CloseResult(e)])
    /\ held' = held
    /\ UNCHANGED notCloseVars

CloseNext == \E fails \in SUBSET ResourceSet : Close(fails)

(***************************************************************************)
(* The enumerations of error.go: ErrorSeverity, ErrorType, ErrorTag.       *)
(*                                                                         *)
(* A text is the sequence of its bytes.  The bytes of the model are the    *)
(* newline, the space, the hyphen and the letters.                         *)
(***************************************************************************)
\* the bytes of the model in the order of their values
AsciiOrder ==
    <<"\n", " ", "-",
      "A", "B", "C", "D", "E", "F", "G", "H", "I", "J", "K", "L", "M",
      "N", "O", "P", "Q", "R", "S", "T", "U", "V", "W", "X", "Y", "Z",
      "a", "b", "c", "d", "e", "f", "g", "h", "i", "j", "k", "l", "m",
      "n", "o", "p", "q", "r", "s", "t", "u", "v", "w", "x", "y", "z">>

\* the rank of a byte among the bytes of the model
Code(c) == CHOOSE i \in 1..Len(AsciiOrder) : AsciiOrder[i] = c

UpperCase == {"A", "B", "C", "D", "E", "F", "G", "H", "I", "J", "K", "L", "M", "N", "O", "P", "Q", "R", "S", "T", "U", "V", "W", "X", "Y", "Z"}

\* the distance from an upper-case letter to its lower-case letter
CaseShift == Code("a") - Code("A")

RECURSIVE Less(_, _)
\* a < b on Go strings: byte by byte, a proper prefix first
Less(a, b) ==
    IF b = <<>> THEN FALSE
    ELSE IF a = <<>> THEN TRUE
    ELSE IF a[1] # b[1] THEN Code(a[1]) < Code(b[1])
    ELSE Less(Tail(a), Tail(b))

\* bytes.ToLower
ToLower(text) ==
    [i \in 1..Len(text) |->
        IF text[i] \in UpperCase THEN AsciiOrder[Code(text[i]) + CaseShift]
        ELSE text[i]]

\* Normalise without the lower-casing
Normalise_NoLower(text) == TrimSpace(text)

\* string(bytes.ToLower(bytes.TrimSpace(text)))
Normalise(text) == ToLower(TrimSpace(text))

RECURSIVE Search(_, _, _, _)
\* sort.Search over a[i..j): the loop that halves the range
Search(a, x, i, j) ==
    IF i >= j THEN i
    ELSE LET h == (i + j) \div 2
         IN  IF Less(a[h + 1], x) THEN Search(a, x, h + 1, j)
             ELSE Search(a, x, i, h)

\* sort.SearchStrings(a, x): 0-based, Len(a) if every entry is below x
SearchStrings(a, x) == Search(a, x, 0, Len(a))

\* errorSeverityStringArray, byte by byte
errorSeverityChars ==
    <<<<>>,
      <<"e", "r", "r", "o", "r">>,
      <<"u", "n", "k", "n", "o", "w", "n">>,
      <<"w", "a", "r", "n", "i", "n", "g">>>>

\* errorTypeStringArray
errorTypeStringArray ==
    <<<<>>,
      <<"a", "p", "p", "l", "i", "c", "a", "t", "i", "o", "n">>,
      <<"p", "r", "o", "t", "o", "c", "o", "l">>,
      <<"r", "p", "c">>,
      <<"t", "r", "a", "n", "s", "p", "o", "r", "t">>,
      <<"u", "n", "k", "n", "o", "w", "n">>>>

\* errorTagStringArray with two entries out of order
errorTagStringArray_Swapped ==
    <<<<>>,
      <<"a", "c", "c", "e", "s", "s", "-", "d", "e", "n", "i", "e", "d">>,
      <<"b", "a", "d", "-", "a", "t", "t", "r", "i", "b", "u", "t", "e">>,
      <<"b", "a", "d", "-", "e", "l", "e", "m", "e", "n", "t">>,
      <<"d", "a", "t", "a", "-", "e", "x", "i", "s", "t", "s">>,
      <<"d", "a", "t", "a", "-", "m", "i", "s", "s", "i", "n", "g">>,
      <<"i", "n", "v", "a", "l", "i", "d", "-", "v", "a", "l", "u", "e">>,
      <<"i", "n", "-", "u", "s", "e">>,
      <<"l", "o", "c", "k", "-", "d", "e", "n", "i", "e", "d">>,
      <<"m", "a", "l", "f", "o", "r", "m", "e", "d", "-", "m", "e", "s", "s", "a", "g", "e">>,
      <<"m", "i", "s", "s", "i", "n", "g", "-", "a", "t", "t", "r", "i", "b", "u", "t", "e">>,
      <<"m", "i", "s", "s", "i", "n", "g", "-", "e", "l", "e", "m", "e", "n", "t">>,
      <<"o", "p", "e", "r", "a", "t", "i", "o", "n", "-", "f", "a", "i", "l", "e", "d">>,
      <<"o", "p", "e", "r", "a", "t", "i", "o", "n", "-", "n", "o", "t", "-", "s", "u", "p", "p", "o", "r", "t", "e", "d">>,
      <<"p", "a", "r", "t", "i", "a", "l", "-", "o", "p", "e", "r", "a", "t", "i", "o", "n">>,
      <<"r", "e", "s", "o", "u", "r", "c", "e", "-", "d", "e", "n", "i", "e", "d">>,
      <<"r", "o", "l", "l", "b", "a", "c", "k", "-", "f", "a", "i", "l", "e", "d">>,
      <<"t", "o", "o", "-", "b", "i", "g">>,
      <<"u", "n", "k", "n", "o", "w", "n">>,
      <<"u", "n", "k", "n", "o", "w", "n", "-", "a", "t", "t", "r", "i", "b", "u", "t", "e">>,
      <<"u", "n", "k", "n", "o", "w", "n", "-", "e", "l", "e", "m", "e", "n", "t">>,
      <<"u", "n", "k", "n", "o", "w", "n", "-", "n", "a", "m", "e", "s", "p", "a", "c", "e">>>>

\* errorTagStringArray
errorTagStringArray ==
    <<<<>>,
      <<"a", "c", "c", "e", "s", "s", "-", "d", "e", "n", "i", "e", "d">>,
      <<"b", "a", "d", "-", "a", "t", "t", "r", "i", "b", "u", "t", "e">>,
      <<"b", "a", "d", "-", "e", "l", "e", "m", "e", "n", "t">>,
      <<"d", "a", "t", "a", "-", "e", "x", "i", "s", "t", "s">>,
      <<"d", "a", "t", "a", "-", "m", "i", "s", "s", "i", "n", "g">>,
      <<"i", "n", "-", "u", "s", "e">>,
      <<"i", "n", "v", "a", "l", "i", "d", "-", "v", "a", "l", "u", "e">>,
      <<"l", "o", "c", "k", "-", "d", "e", "n", "i", "e", "d">>,
      <<"m", "a", "l", "f", "o", "r", "m", "e", "d", "-", "m", "e", "s", "s", "a", "g", "e">>,
      <<"m", "i", "s", "s", "i", "n", "g", "-", "a", "t", "t", "r", "i", "b", "u", "t", "e">>,
      <<"m", "i", "s", "s", "i", "n", "g", "-", "e", "l", "e", "m", "e", "n", "t">>,
      <<"o", "p", "e", "r", "a", "t", "i", "o", "n", "-", "f", "a", "i", "l", "e", "d">>,
      <<"o", "p", "e", "r", "a", "t", "i", "o", "n", "-", "n", "o", "t", "-", "s", "u", "p", "p", "o", "r", "t", "e", "d">>,
      <<"p", "a", "r", "t", "i", "a", "l", "-", "o", "p", "e", "r", "a", "t", "i", "o", "n">>,
      <<"r", "e", "s", "o", "u", "r", "c", "e", "-", "d", "e", "n", "i", "e", "d">>,
      <<"r", "o", "l", "l", "b", "a", "c", "k", "-", "f", "a", "i", "l", "e", "d">>,
      <<"t", "o", "o", "-", "b", "i", "g">>,
      <<"u", "n", "k", "n", "o", "w", "n">>,
      <<"u", "n", "k", "n", "o", "w", "n", "-", "a", "t", "t", "r", "i", "b", "u", "t", "e">>,
      <<"u", "n", "k", "n", "o", "w", "n", "-", "e", "l", "e", "m", "e", "n", "t">>,
      <<"u", "n", "k", "n", "o", "w", "n", "-", "n", "a", "m", "e", "s", "p", "a", "c", "e">>>>

ErrorTypeZero == 0
ErrorTypeUnknown == 5
ErrorTagZero == 0
ErrorTagUnknown == 18

\* the three enumerations: the type's name, its table, its unknown constant
Enums ==
    [ErrorSeverity |-> [table |-> errorSeverityChars,
                        unknown |-> ErrorSeverityUnknown],
     ErrorType     |-> [table |-> errorTypeStringArray,
                        unknown |-> ErrorTypeUnknown],
     ErrorTag      |-> [table |-> errorTagStringArray,
                        unknown |-> ErrorTagUnknown]]

EnumNames == DOMAIN Enums

\* String without the range check's fallback
String_Zero(name, v) ==
    IF v < Len(Enums[name].table) THEN Enums[name].table[v + 1]
    ELSE <<>>

\* String(): the table entry of an in-range value, else the unknown text
String(name, v) ==
    IF v < Len(Enums[name].table) THEN Enums[name].table[v + 1]
    ELSE Enums[name].table[Enums[name].unknown + 1]

\* UnmarshalText without the comparison of the entry found
UnmarshalTextOf_AnyIndex(name, text) ==
    LET t == Enums[name].table
        i == SearchStrings(t, Normalise(text))
    IN  IF i # Len(t)
        THEN [v |-> i, err |-> Nil, Type |-> "", Value |-> <<>>]
        ELSE [v |-> Enums[name].unknown, err |-> "UnmarshalTextError",
              Type |-> name, Value |-> text]

\* UnmarshalText(text) of the enumeration called name: the receiver after
\* the call and the error returned
UnmarshalTextOf(name, text) ==
    LET t == Enums[name].table
        sText == Normalise(text)
        i == SearchStrings(t, sText)
    IN  IF i # Len(t) /\ t[i + 1] = sText
        THEN [v |-> i, err |-> Nil, Type |-> "", Value |-> <<>>]
        ELSE [v |-> Enums[name].unknown, err |-> "UnmarshalTextError",
              Type |-> name, Value |-> text]

\* ReplyError.Error(): the message, or "<severity> <tag> <bad-element>"
Error(e) ==
    IF e.Message # <<>> THEN e.Message
    ELSE String("ErrorSeverity", e.Severity) \o <<" ">> \o
         String("ErrorTag", e.Tag) \o <<" ">> \o e.BadElement

\* an rpc-error element as xml unmarshals it into a ReplyError: the fields
\* with a TextUnmarshaler through it, the strings as they are
UnmarshalReplyError(x) ==
    LET sev == UnmarshalTextOf("ErrorSeverity", x.severity)
        tag == UnmarshalTextOf("ErrorTag", x.tag)
    IN  [Severity |-> sev.v, Tag |-> tag.v, BadElement |-> x.badElement,
         Message |-> x.message,
         err |-> IF tag.err # Nil THEN tag.err ELSE sev.err]

\* Decoder.Decode of a reply with the rpc-error elements xs, as far as its
\* result goes: the error of the xml decoding, or the first entry of
\* severity error, whose Error() is the text of the error returned
DecodeErrors(xs) ==
    LET list == [k \in 1..Len(xs) |-> UnmarshalReplyError(xs[k])]
        bad == {k \in 1..Len(xs) : list[k].err # Nil}
        found == FirstError(list)
    IN  IF bad # {} THEN [ret |-> Ret("UnmarshalTextError", 0), text |-> <<>>]
        ELSE [ret |-> found,
              text |-> IF found = RetNil THEN <<>> ELSE Error(list[found.idx])]

\* ---- the inputs ----
Spaces == {" ", "\n"}

\* the runs of whitespace put around a text
Pads == UNION {[1..n -> Spaces] : n \in 0..MaxPad}

\* the text in upper case, and with a capital first letter
ToUpper(text) ==
    [i \in 1..Len(text) |->
        IF Code(text[i]) >= Code("a") THEN AsciiOrder[Code(text[i]) - CaseShift]
        ELSE text[i]]

Capital(text) ==
    IF text = <<>> THEN text ELSE ToUpper(<<text[1]>>) \o Tail(text)

\* the texts of the tests that hit: a table entry in some letter case, with
\* whitespace around it
HitTexts(name) ==
    {l \o c \o r :
        l \in Pads, r \in Pads,
        c \in UNION {{s, ToUpper(s), Capital(s)} :
                       s \in {Enums[name].table[k] :
                                k \in 1..Len(Enums[name].table)}}}

\* the texts of the tests that miss: an entry with a byte added at an end,
\* or with a space inside it
MissTexts(name) ==
    {l \o c \o r :
        l \in Pads, r \in Pads,
        c \in UNION {{s \o <<"a">>, <<"s">> \o s} \cup
                     (IF Len(s) > 1 THEN {<<s[1], " ">> \o Tail(s)} ELSE {}) :
                       s \in {Enums[name].table[k] :
                                k \in 1..Len(Enums[name].table)}}}

\* the values String is called on: every constant, and some beyond the table
EnumValues(name) == 0..(Len(Enums[name].table) - 1 + MaxBeyond)

\* the rpc-error elements of the replies decoded
ErrorElements ==
    [severity : {<<"e", "r", "r", "o", "r">>, <<" ", "E", "r", "r", "o", "r">>,
                 <<"w", "a", "r", "n", "i", "n", "g">>},
     tag : {<<"i", "n", "-", "u", "s", "e">>, <<"f", "o", "o">>},
     badElement : {<<"p", "b", "r">>},
     message : {<<>>, <<"m", "s", "g">>}]

ErrorLists == UNION {[1..n -> ErrorElements] : n \in 0..MaxEntries}

\* ---- the calls, each on a new value ----
NoEnumCall == [op |-> "none"]

\* var v T; err := v.UnmarshalText(text)
UnmarshalTextCall(name, text) ==
    /\ ecall = NoEnumCall
    /\ ecall' = [op |-> "UnmarshalText", name |-> name, text |-> text,
                 res |-> UnmarshalTextOf(name, text)]
    /\ UNCHANGED notEnumVars

\* s := v.String(); var w T; err := w.UnmarshalText([]byte(s))
RoundTrip(name, v) ==
    /\ ecall = NoEnumCall
    /\ ecall' = [op |-> "String", name |-> name, v |-> v,
                 str |-> String(name, v),
                 res |-> UnmarshalTextOf(name, String(name, v))]
    /\ UNCHANGED notEnumVars

\* err := decoder.Decode(&reply); err.Error()
ErrorCall(xs) ==
    /\ ecall = NoEnumCall
    /\ ecall' = [op |-> "Error", xs |-> xs, res |-> DecodeErrors(xs)]
    /\ UNCHANGED notEnumVars

EnumNext ==
    \/ \E name \in EnumNames :
          \/ \E text \in HitTexts(name) \cup MissTexts(name) :
                UnmarshalTextCall(name, text)
          \/ \E v \in EnumValues(name) : RoundTrip(name, v)
    \/ \E xs \in ErrorLists : ErrorCall(xs)

(***************************************************************************)
(* Dial and DeadlineConn.  Time is a counter; a timeout is a number of its *)
(* ticks.  The log holds, in order, the calls made on the underlying       *)
(* net.Conn with the time handed to or taken by each and its result; at is *)
(* the time of the last Read or Write on the conn Dial made.               *)
(***************************************************************************)
Timeouts == 0..MaxTimeout

\* Config, as far as Dial reads it for the connection
Configs == [ReadTimeout : Timeouts, WriteTimeout : Timeouts]

hasReadWriteTimeout(c) ==
    IF c.ReadTimeout # 0 \/ c.WriteTimeout # 0 THEN TRUE ELSE FALSE

Directions == {"Read", "Write"}

SetDeadlineOf(dir) ==
    IF dir = "Read" THEN "SetReadDeadline" ELSE "SetWriteDeadline"

\* what a Read or a Write of the underlying net.Conn can return
ConnResults == {[n |-> 1, err |-> Nil], [n |-> 0, err |-> "i/o timeout"]}

\* the error of a SetReadDeadline or SetWriteDeadline that fails
SetDeadlineError == "use of closed network connection"

NoConn == [op |-> "none"]

\* conn.Read(p) or conn.Write(p) on the net.Conn itself
ConnIO(d, dir, res) ==
    [d EXCEPT !.op = dir, !.ops = @ + 1, !.at = d.now,
              !.n = res.n, !.err = res.err,
              !.log = Append(@, [ev |-> dir, t |-> d.now,
                                 n |-> res.n, err |-> res.err])]

\* DeadlineConn.Read and DeadlineConn.Write with the check of the error
\* of the Set call left out
DeadlineIO_Unchecked(d, dir, setOk, res) ==
    LET timeout == IF dir = "Read" THEN d.ReadTimeout ELSE d.WriteTimeout
        set == [ev |-> SetDeadlineOf(dir), t |-> d.now + timeout, n |-> 0,
                err |-> IF setOk THEN Nil ELSE SetDeadlineError]
    IN  ConnIO([d EXCEPT !.log = Append(@, set)], dir, res)

\* DeadlineConn.Read and DeadlineConn.Write
DeadlineIO(d, dir, setOk, res) ==
    LET timeout == IF dir = "Read" THEN d.ReadTimeout ELSE d.WriteTimeout
        set == [ev |-> SetDeadlineOf(dir), t |-> d.now + timeout, n |-> 0,
                err |-> IF setOk THEN Nil ELSE SetDeadlineError]
    IN  IF ~setOk
        THEN [d EXCEPT !.op = dir, !.ops = @ + 1, !.at = d.now, !.n = 0,
                       !.err = SetDeadlineError, !.log = Append(@, set)]
        ELSE ConnIO([d EXCEPT !.log = Append(@, set)], dir, res)

\* Dial: the net.Conn, wrapped in a DeadlineConn if the Config asks for it
Dial(c, dialOk) ==
    /\ dconn = NoConn
    /\ dconn' = [op |-> IF dialOk THEN "Dial" ELSE "DialError",
                 ReadTimeout |-> c.ReadTimeout,
                 WriteTimeout |-> c.WriteTimeout,
                 wrapped |-> dialOk /\ hasReadWriteTimeout(c),
                 now |-> 0, ops |-> 0, at |-> 0, n |-> 0, err |-> Nil, log |-> <<>>]
    /\ UNCHANGED notConnVars

connLive == dconn.op \in {"Dial"} \cup Directions

\* a Read or a Write the ssh client makes on the conn Dial handed to it
ConnCall(dir, setOk, res) ==
    /\ connLive
    /\ dconn.ops < MaxConnOps
    /\ dconn' = IF dconn.wrapped THEN DeadlineIO(dconn, dir, setOk, res)
                ELSE ConnIO(dconn, dir, res)
    /\ UNCHANGED notConnVars

\* time passes
ConnTick ==
    /\ connLive
    /\ dconn.now < MaxNow
    /\ dconn' = [dconn EXCEPT !.now = @ + 1]
    /\ UNCHANGED notConnVars

ConnNext ==
    \/ \E c \in Configs, dialOk \in BOOLEAN : Dial(c, dialOk)
    \/ \E dir \in Directions, setOk \in BOOLEAN, res \in ConnResults :
          ConnCall(dir, setOk, res)
    \/ ConnTick

(***************************************************************************)
(* NewSession (session.go), statement by statement.  The log holds the     *)
(* calls made on the ssh client, the ssh session and the pipes, in order,  *)
(* each with whether it succeeded; wrote is what the inbound side of the   *)
(* outbound pipe has received.                                             *)
(***************************************************************************)
\* DefaultHelloMessage, down to an element and its delimiter line
DefaultHelloMessage == <<"<", "h", ">", "\n">> \o MessageSeparator \o <<"\n">>

\* what the server sends after the subsystem was requested: a hello and its
\* delimiter, nothing, an element that does not end, a hello without a
\* delimiter, or text that is not XML
ServerStreams ==
    {DFrame(h, gap, blank).frame :
        h \in {<<>>, <<"e">>}, gap \in Gaps, blank \in Paddings}
    \cup {<<>>, <<"<", "e">>, <<"<", "e", ">">>, CDataEnd \o <<"<", "e", ">">>}

\* Decoder.DecodeHello on a new Decoder over the stream
DecodeHelloOf(s) ==
    LET x == XmlElement(s, 0, RetNil)
        sk == SkipSepFrom(s, x.pos)
    IN  IF x.err # RetNil THEN x.err ELSE sk.err

NoHello == [op |-> "none"]

\* the statements of NewSession, in order
SessionSteps ==
    <<"Dial", "NewSession", "RequestSubsystem", "StdoutPipe", "StdinPipe",
      "DecodeHello", "Copy">>

\* closeAll(), and before it is defined the Close of the ssh client alone
CloseAllLog(step) ==
    IF step = "Dial" THEN <<>>
    ELSE IF step = "NewSession" THEN <<[ev |-> "sshClient.Close", ok |-> TRUE]>>
    ELSE <<[ev |-> "sshClient.Close", ok |-> TRUE],
           [ev |-> "sshSession.Close", ok |-> TRUE]>>

\* the statement that follows a statement, were its error not looked at
AfterStep_Unchecked(step, ok) ==
    LET i == CHOOSE k \in 1..Len(SessionSteps) : SessionSteps[k] = step
    IN  IF i = Len(SessionSteps) THEN "return" ELSE SessionSteps[i + 1]

\* the statement that follows a statement: the next one if it succeeded,
\* the return if it failed or was the last
AfterStep(step, ok) ==
    LET i == CHOOSE k \in 1..Len(SessionSteps) : SessionSteps[k] = step
    IN  IF ~ok \/ i = Len(SessionSteps) THEN "return" ELSE SessionSteps[i + 1]

\* a statement of NewSession has run with the given result
Stepped(h, step, ok) ==
    [h EXCEPT !.op = AfterStep(step, ok),
              !.log = @ \o <<[ev |-> step, ok |-> ok]>>
                        \o (IF ok THEN <<>> ELSE CloseAllLog(step)),
              !.ret = IF ~ok THEN "error"
                      ELSE IF AfterStep(step, ok) = "return" THEN "session"
                      ELSE @]

\* NewSession(clientConfig, target) up to ssh.Dial
SshDial(server, ok) ==
    /\ hs = NoHello
    /\ hs' = Stepped([op |-> "Dial", server |-> server, log |-> <<>>,
                      wrote |-> <<>>, ret |-> "none"], "Dial", ok)
    /\ UNCHANGED notHelloVars

\* sshClient.NewSession, RequestSubsystem("netconf"), StdoutPipe, StdinPipe
SshStep(ok) ==
    /\ hs.op \in {"NewSession", "RequestSubsystem", "StdoutPipe", "StdinPipe"}
    /\ hs' = Stepped(hs, hs.op, ok)
    /\ UNCHANGED notHelloVars

\* session.NewDecoder().DecodeHello(&helloMessage)
DecodeServerHello ==
    /\ hs.op = "DecodeHello"
    /\ hs' = Stepped(hs, "DecodeHello", DecodeHelloOf(hs.server) = RetNil)
    /\ UNCHANGED notHelloVars

\* io.Copy(&session, strings.NewReader(DefaultHelloMessage)): one Write of
\* the pipe, which takes k bytes and fails unless it took them all
CopyHello(k, ok) ==
    /\ hs.op = "Copy"
    /\ k < Len(DefaultHelloMessage) => ~ok
    /\ hs' = Stepped([hs EXCEPT !.wrote = @ \o SubSeq(DefaultHelloMessage, 1, k)],
                     "Copy", ok)
    /\ UNCHANGED notHelloVars

NewSessionNext ==
    \/ \E server \in ServerStreams, ok \in BOOLEAN : SshDial(server, ok)
    \/ \E ok \in BOOLEAN : SshStep(ok)
    \/ DecodeServerHello
    \/ \E k \in 0..Len(DefaultHelloMessage), ok \in BOOLEAN : CopyHello(k, ok)

(***************************************************************************)
(* NewSession(sshSession), the variant that is given an ssh session.  It   *)
(* returns a Session pointer and an error; err says that the error is not  *)
(* nil, writeCloser that Session.writeCloser is not nil.                   *)
(***************************************************************************)
\* Session.Close of this variant, whose errors NewSession drops: the pipe if
\* there is one, then the ssh session
SessionCloseLog(h) ==
    (IF h.writeCloser THEN <<[ev |-> "writeCloser.Close", ok |-> TRUE]>> ELSE <<>>)
    \o <<[ev |-> "sshSession.Close", ok |-> TRUE]>>

\* Session.DecodeHello of this variant: the xml decoder reads through the
\* Reader, which hands out what came before the delimiter
SessionDecodeHelloOf(s) ==
    XmlElement(DetectSeparator(s, FALSE).buffer, 0, RetNil).err

\* the end of NewSession: _, err = ncSession.writeCloser.Write(...) and
\* return &ncSession, hello, err
HelloWritten(h, ok) ==
    [h EXCEPT !.op = "return",
              !.log = @ \o <<[ev |-> "Write", ok |-> ok]>>,
              !.ret = "session",
              !.err = ~ok]

\* a statement of NewSession fails: close and return nil, nil, err
FailedWith(h, ev, closing) ==
    [h EXCEPT !.op = "return",
              !.log = @ \o <<[ev |-> ev, ok |-> FALSE]>> \o closing,
              !.ret = "nil",
              !.err = TRUE]

\* NewSession(sshSession) is called; the server sends the given stream
NewSessionOver(server) ==
    /\ hs = NoHello
    /\ hs' = [op |-> "RequestSubsystem", server |-> server, log |-> <<>>,
              wrote |-> <<>>, ret |-> "none", err |-> FALSE,
              writeCloser |-> FALSE]
    /\ UNCHANGED notHelloVars

\* sshSession.RequestSubsystem("netconf")
RequestSubsystem(ok) ==
    /\ hs.op = "RequestSubsystem"
    /\ hs' = IF ok
             THEN [hs EXCEPT !.op = "initPipes",
                             !.log = @ \o <<[ev |-> "RequestSubsystem", ok |-> TRUE]>>]
             ELSE FailedWith(hs, "RequestSubsystem",
                             <<[ev |-> "sshSession.Close", ok |-> TRUE]>>)
    /\ UNCHANGED notHelloVars

\* ncSession.initPipes(): StdoutPipe, then StdinPipe, which sets writeCloser
InitPipes(outOk, inOk) ==
    /\ hs.op = "initPipes"
    /\ ~outOk => ~inOk
    /\ hs' = IF ~outOk THEN FailedWith(hs, "StdoutPipe", SessionCloseLog(hs))
             ELSE IF ~inOk
             THEN FailedWith([hs EXCEPT !.log = @ \o <<[ev |-> "StdoutPipe", ok |-> TRUE]>>],
                             "StdinPipe", SessionCloseLog(hs))
             ELSE [hs EXCEPT !.op = "DecodeHello",
                             !.writeCloser = TRUE,
                             !.log = @ \o <<[ev |-> "StdoutPipe", ok |-> TRUE],
                                            [ev |-> "StdinPipe", ok |-> TRUE]>>]
    /\ UNCHANGED notHelloVars

\* ncSession.DecodeHello()
SessionDecodeHello ==
    /\ hs.op = "DecodeHello"
    /\ hs' = IF SessionDecodeHelloOf(hs.server) = RetNil
             THEN [hs EXCEPT !.op = "Write",
                             !.log = @ \o <<[ev |-> "DecodeHello", ok |-> TRUE]>>]
             ELSE FailedWith(hs, "DecodeHello", SessionCloseLog(hs))
    /\ UNCHANGED notHelloVars

\* ncSession.writeCloser.Write(defaultHelloMessageBytes): the pipe takes k
\* bytes and fails unless it took them all
WriteHello(k, ok) ==
    /\ hs.op = "Write"
    /\ k < Len(DefaultHelloMessage) => ~ok
    /\ hs' = HelloWritten([hs EXCEPT !.wrote = SubSeq(DefaultHelloMessage, 1, k)], ok)
    /\ UNCHANGED notHelloVars

NewSessionOverNext ==
    \/ \E server \in ServerStreams : NewSessionOver(server)
    \/ \E ok \in BOOLEAN : RequestSubsystem(ok)
    \/ \E outOk \in BOOLEAN, inOk \in BOOLEAN : InitPipes(outOk, inOk)
    \/ SessionDecodeHello
    \/ \E k \in 0..Len(DefaultHelloMessage), ok \in BOOLEAN : WriteHello(k, ok)

(***************************************************************************)
(* Client: Dial with a keepalive interval, the keepalive goroutine, Close. *)
(* dconn holds the Client that Dial returned: ticker and stop are the      *)
(* fields keepaliveTicker and stopKeepalive, tick says that the ticker's   *)
(* channel holds a tick, task is where the goroutine is, closing how far   *)
(* Close has come, sshClosed that the ssh client was closed, sent the      *)
(* keepalive requests that went out, and sentAfterClose that one went out  *)
(* after Close had returned.                                               *)
(***************************************************************************)
\* the largest keepalive interval, and the number of requests counted
MaxKeepalive == 2
MaxSends == 3

\* KeepaliveStarts with the bug of starting the goroutine in any case
KeepaliveStarts_Always(keepalive) == TRUE

\* Dial: if c.Keepalive != 0 { ncClient.Keepalive(c.Keepalive) }
KeepaliveStarts(keepalive) == keepalive # 0

\* Dial(c) with the given c.Keepalive returns a Client; Keepalive makes the
\* ticker and the stop channel and starts the goroutine, which enters its
\* select
DialClient(keepalive) ==
    /\ dconn = NoConn
    /\ dconn' = [op |-> "Client", Keepalive |-> keepalive,
                 ticker |-> IF KeepaliveStarts(keepalive) THEN "running" ELSE "nil",
                 stop |-> IF KeepaliveStarts(keepalive) THEN "open" ELSE "nil",
                 task |-> IF KeepaliveStarts(keepalive) THEN "select" ELSE "none",
                 tick |-> FALSE, closing |-> "no", sshClosed |-> FALSE,
                 sent |-> 0, sentAfterClose |-> FALSE]
    /\ UNCHANGED notConnVars

clientLive == dconn # NoConn /\ dconn.op = "Client"

\* the ticker puts a tick on its channel, which holds one; a stopped ticker
\* sends no more, and what its channel holds stays there
KeepaliveTick ==
    /\ clientLive /\ dconn.ticker = "running" /\ ~dconn.tick
    /\ dconn' = [dconn EXCEPT !.tick = TRUE]
    /\ UNCHANGED notConnVars

\* the goroutine: case <-c.keepaliveTicker.C, and the call of SendRequest,
\* which puts the request on the connection unless the client is closed
SelectTick ==
    /\ clientLive /\ dconn.task = "select" /\ dconn.tick
    /\ dconn' = [dconn EXCEPT
          !.tick = FALSE,
          !.task = "sending",
          !.sent = IF dconn.sshClosed \/ @ = MaxSends THEN @ ELSE @ + 1,
          !.sentAfterClose = @ \/ (~dconn.sshClosed /\ dconn.closing = "returned")]
    /\ UNCHANGED notConnVars

\* the goroutine: SendRequest returns, with an error if the client is
\* closed, and an error ends the goroutine
SendRequestReturns(ok) ==
    /\ clientLive /\ dconn.task = "sending"
    /\ dconn.sshClosed => ~ok
    /\ dconn' = [dconn EXCEPT !.task = IF ok THEN "select" ELSE "exited"]
    /\ UNCHANGED notConnVars

\* SendRequest on a closed client returns its error
SendRequestFails == dconn # NoConn /\ dconn.sshClosed /\ SendRequestReturns(FALSE)

\* the goroutine: case <-c.stopKeepalive, which a closed channel makes ready
SelectStop ==
    /\ clientLive /\ dconn.task = "select" /\ dconn.stop = "closed"
    /\ dconn' = [dconn EXCEPT !.ticker = "stopped", !.task = "exited"]
    /\ UNCHANGED notConnVars

\* Client.Close up to its return statement: with a ticker, the stop channel
\* is closed and the ticker stopped
ClientClose ==
    /\ clientLive /\ dconn.closing = "no"
    /\ dconn' = IF dconn.ticker # "nil"
                THEN [dconn EXCEPT !.closing = "closing", !.stop = "closed",
                                   !.ticker = "stopped"]
                ELSE [dconn EXCEPT !.closing = "closing"]
    /\ UNCHANGED notConnVars

\* Client.Close: return c.sshClient.Close()
ClientCloseReturns ==
    /\ clientLive /\ dconn.closing = "closing"
    /\ dconn' = [dconn EXCEPT !.closing = "returned", !.sshClosed = TRUE]
    /\ UNCHANGED notConnVars

KeepaliveNext ==
    \/ \E keepalive \in 0..MaxKeepalive : DialClient(keepalive)
    \/ KeepaliveTick
    \/ SelectTick
    \/ \E ok \in BOOLEAN : SendRequestReturns(ok)
    \/ SelectStop
    \/ ClientClose
    \/ ClientCloseReturns

(***************************************************************************)
(* DeadlineReader.Read (reply_reader.go).  Read starts a timer and a       *)
(* helper goroutine and selects on the helper's channel and the timer's.   *)
(* The helper writes begin and the named results n and err of Read, which  *)
(* Read reads without synchronisation when the timer wins: such a read     *)
(* sees the value written or the one before it.  Time is a counter that    *)
(* starts at the call.                                                     *)
(***************************************************************************)
\* the zero time.Time of a begin that is not set
ZeroTime == -1

\* what the underlying Read can return
InnerResults == {[n |-> k, err |-> Nil] : k \in 1..MaxP} \cup {[n |-> 0, err |-> EOF]}

NoDeadlineRead == [op |-> "none"]

\* the cases of the select that can proceed, with a timer case that does not
\* wait for the timer
SelectReady_Always(d) ==
    (IF d.helper = "sending" THEN {"ch"} ELSE {}) \cup {"timer"}

\* the cases of the select that can proceed: the helper is blocked in its
\* send, the timer has put its time on timer.C
SelectReady(d) ==
    (IF d.helper = "sending" THEN {"ch"} ELSE {})
    \cup (IF d.fired THEN {"timer"} ELSE {})

\* Read, up to the select: the timer and the helper are started
DeadlineRead(deadline, hangs) ==
    /\ dr = NoDeadlineRead
    /\ dr' = [op |-> "Read", deadline |-> deadline, hangs |-> hangs,
              now |-> 0, fired |-> FALSE, timeDone |-> ZeroTime,
              helper |-> "started", begin |-> ZeroTime,
              n |-> 0, err |-> Nil,
              firedAtDone |-> FALSE, firstReady |-> "none",
              main |-> "select", case |-> "none",
              ret |-> [n |-> 0, err |-> Nil, Op |-> "", BeginTime |-> ZeroTime,
                       FailTime |-> ZeroTime, Deadline |-> 0]]
    /\ UNCHANGED notDeadlineVars

\* the helper: begin = time.Now()
HelperBegin ==
    /\ dr.op = "Read" /\ dr.helper = "started"
    /\ dr' = [dr EXCEPT !.helper = "reading", !.begin = dr.now]
    /\ UNCHANGED notDeadlineVars

\* HelperSend on a channel with room for the value
HelperSend_Buffered(received) == "exited"

\* the helper at ch <- struct{}{}, on the channel of make(chan struct{}),
\* which has no buffer: the send completes, and the helper ends, only
\* together with a receive of Read
HelperSend(received) == IF received THEN "exited" ELSE "sending"

\* the helper: n, err = dr.reader.Read(b) returns, and the helper goes on to
\* its send, where it waits for Read to receive
HelperReadReturns(res) ==
    /\ dr.op = "Read" /\ dr.helper = "reading" /\ ~dr.hangs
    /\ dr' = [dr EXCEPT !.helper = HelperSend(FALSE),
                        !.n = res.n, !.err = res.err,
                        !.firedAtDone = dr.fired,
                        !.firstReady = IF @ = "none" THEN "ch" ELSE @]
    /\ UNCHANGED notDeadlineVars

\* the timer of NewTimer(dr.deadline) fires and puts the time on timer.C
TimerFires ==
    /\ dr.op = "Read" /\ dr.main = "select"
    /\ ~dr.fired /\ dr.now >= dr.deadline
    /\ dr' = [dr EXCEPT !.fired = TRUE, !.timeDone = dr.now,
                        !.firstReady = IF @ = "none" THEN "timer" ELSE @]
    /\ UNCHANGED notDeadlineVars

\* time passes, as far as the timer is concerned
DeadlineTick ==
    /\ dr.op = "Read" /\ dr.main = "select"
    /\ dr.now < dr.deadline
    /\ dr' = [dr EXCEPT !.now = @ + 1]
    /\ UNCHANGED notDeadlineVars

\* Read: case <-ch: return n, err
SelectCh ==
    /\ dr.op = "Read" /\ dr.main = "select"
    /\ "ch" \in SelectReady(dr)
    /\ dr' = [dr EXCEPT !.main = "returned", !.case = "ch",
                        !.helper = HelperSend(TRUE),
                        !.ret = [n |-> dr.n, err |-> dr.err, Op |-> "",
                                 BeginTime |-> ZeroTime, FailTime |-> ZeroTime,
                                 Deadline |-> 0]]
    /\ UNCHANGED notDeadlineVars

\* Read: case timeDone := <-timer.C: return n, &DeadlineError{...}, with the
\* n and the begin that the unsynchronised reads see
SelectTimer(nSeen, beginSeen) ==
    /\ dr.op = "Read" /\ dr.main = "select"
    /\ "timer" \in SelectReady(dr)
    /\ nSeen \in {0, dr.n}
    /\ beginSeen \in {ZeroTime, dr.begin}
    /\ dr' = [dr EXCEPT !.main = "returned", !.case = "timer",
                        !.ret = [n |-> nSeen, err |-> "DeadlineError",
                                 Op |-> "read", BeginTime |-> beginSeen,
                                 FailTime |-> dr.timeDone,
                                 Deadline |-> dr.deadline]]
    /\ UNCHANGED notDeadlineVars

\* a step of Read itself
SelectStep ==
    \/ SelectCh
    \/ \E nSeen \in 0..MaxP, beginSeen \in ZeroTime..MaxDeadline :
          SelectTimer(nSeen, beginSeen)

DeadlineNext ==
    \/ \E deadline \in 0..MaxDeadline, hangs \in BOOLEAN :
          DeadlineRead(deadline, hangs)
    \/ HelperBegin
    \/ \E res \in InnerResults : HelperReadReturns(res)
    \/ TimerFires
    \/ DeadlineTick
    \/ SelectStep

(***************************************************************************)
(* ReplyReader (reply_reader.go).  src is what the session's stdout holds, *)
(* taken is how much of it the ReplyReader has read; closed says that the  *)
(* session ends after those bytes instead of staying open.                 *)
(***************************************************************************)
\* len(rr.buf): NewReplyReader sets session and bytesBuf and leaves buf nil
ReplyBufLen == 0

\* what stdout holds: a reply, its separator, whitespace and the start of
\* the next reply; or a reply that has not been delimited yet
ReplyStreams ==
    {b \o MessageSeparator \o pad \o tl :
        b \in Bodies, pad \in Paddings, tl \in Tails}
    \cup Bodies

NoReply == [op |-> "none"]

\* NewReplyReader(session)
NewReplyReaderOver(src, closed) ==
    [op |-> "New", src |-> src, closed |-> closed, taken |-> 0,
     bytesBuf |-> <<>>, err |-> Nil,
     plen |-> 0, n |-> 0, ret |-> Nil, tookNow |-> 0,
     delivered |-> <<>>, reads |-> 0, eofs |-> 0, afterEOF |-> TRUE]

\* rr.session.Read(b) for a b of length size: the results it can have.  With
\* room in b it blocks until there is a byte, and has nothing to return while
\* the stream is open and empty; without room it returns at once.
StdoutRead(r, size) ==
    LET avail == Len(r.src) - r.taken
    IN  IF size = 0
        THEN {[n |-> 0, err |-> Nil]}
             \cup (IF avail = 0 /\ r.closed THEN {[n |-> 0, err |-> EOF]} ELSE {})
        ELSE IF avail > 0
        THEN {[n |-> k, err |-> Nil] : k \in 1..Min(size, avail)}
        ELSE IF r.closed THEN {[n |-> 0, err |-> EOF]}
        ELSE {}

\* what a Read leaves of the ReplyReader: it took took bytes from the
\* session, returns (nOut, err) with the first nOut bytes of buf, keeps the
\* rest of buf in bytesBuf and rrerr in rr.err
ReadReturned(r, size, buf, nOut, err, rrerr, took) ==
    [r EXCEPT !.op = "Read", !.plen = size, !.n = nOut, !.ret = err,
              !.bytesBuf = SubSeq(buf, nOut + 1, Len(buf)),
              !.err = rrerr,
              !.taken = @ + took, !.tookNow = took,
              !.delivered = @ \o SubSeq(buf, 1, nOut),
              !.reads = @ + 1,
              !.eofs = IF err = EOF THEN @ + 1 ELSE @,
              !.afterEOF = @ /\ (r.eofs > 0 => nOut = 0 /\ err = EOF)]

\* ReplyReader.Read(p) for a p of length size, got being what session.Read
\* returns if it is called
ReadReply(r, size, got) ==
    IF r.err # Nil
    THEN IF Len(r.bytesBuf) # 0
         THEN LET br == BufferRead(r.bytesBuf, size)
              IN  ReadReturned(r, size, r.bytesBuf, br.n, br.err, r.err, 0)
         ELSE ReadReturned(r, size, r.bytesBuf, 0, r.err, r.err, 0)
    ELSE LET all == r.bytesBuf \o SubSeq(r.src, r.taken + 1, r.taken + got.n)
             bTrim == TrimRightFunc(all)
         IN  IF HasSuffix(bTrim, MessageSeparator)
             THEN LET cut == SubSeq(all, 1, LastIndex(bTrim, MessageSeparator))
                      br == BufferRead(cut, size)
                  IN  ReadReturned(r, size, cut, br.n, br.err, EOF, got.n)
             ELSE IF Len(all) < Len(MessageSeparator)
             THEN ReadReturned(r, size, all, 0, Nil, got.err, got.n)
             ELSE LET br == BufferRead(all, size)
                  IN  ReadReturned(r, size, all, br.n, got.err, got.err, got.n)

\* rr := session.NewReplyReader()
CallNewReplyReader(src, closed) ==
    /\ rr = NoReply
    /\ rr' = NewReplyReaderOver(src, closed)
    /\ UNCHANGED notReplyVars

\* n, err := rr.Read(p)
CallReplyRead(size) ==
    /\ rr # NoReply
    /\ rr.reads < MaxReplyReads
    /\ IF rr.err # Nil
       THEN rr' = ReadReply(rr, size, [n |-> 0, err |-> Nil])
       ELSE \E got \in StdoutRead(rr, ReplyBufLen) : rr' = ReadReply(rr, size, got)
    /\ UNCHANGED notReplyVars

ReplyNext ==
    \/ \E src \in ReplyStreams, closed \in BOOLEAN : CallNewReplyReader(src, closed)
    \/ \E size \in 1..MaxP : CallReplyRead(size)

(***************************************************************************)
(* The adapters before any call on them.                                   *)
(***************************************************************************)
EnumUnused == ecall = NoEnumCall
ConnUnused == dconn = NoConn
HelloUnused == hs = NoHello
DeadlineUnused == dr = NoDeadlineRead
ReplyUnused == rr = NoReply

LaterUnused ==
    /\ EnumUnused /\ ConnUnused /\ HelloUnused /\ DeadlineUnused /\ ReplyUnused

\* the core before any call on it
CoreUnused ==
    /\ ReaderUnused /\ CounterInitWith(0) /\ EncoderFresh /\ DecoderUnused
    /\ SessionFresh /\ CloseUnused

(***************************************************************************)
(* The specifications.                                                     *)
(***************************************************************************)
\* a Reader over an upstream that never fails: a file or a pipe that delivers
\* its bytes and then end-of-stream
ReaderInit ==
    /\ ReaderInitOver(MaxMsgs, {<<>>})
    /\ CounterInitWith(0) /\ EncoderFresh /\ DecoderUnused /\ SessionFresh /\ CloseUnused
    /\ LaterUnused
SpecReader == ReaderInit /\ [][ReaderNext]_vars

\* a Reader over an upstream whose reads can fail
FaultyInit ==
    /\ ReaderInitOver(1, FailurePlans)
    /\ CounterInitWith(0) /\ EncoderFresh /\ DecoderUnused /\ SessionFresh /\ CloseUnused
    /\ LaterUnused
SpecReaderFaulty == FaultyInit /\ [][ReaderNext]_vars

\* tasks that call one counter
CounterInit ==
    /\ \E n \in 1..MaxTasks : CounterInitWith(n)
    /\ ReaderUnused
    /\ EncoderFresh /\ DecoderUnused /\ SessionFresh /\ CloseUnused
    /\ LaterUnused
SpecCounter == CounterInit /\ [][CounterNext]_vars

\* tasks that call one counter, where the owner's goroutine runs and its
\* select takes a case that stays ready
SpecServe == CounterInit /\ [][ServeNext]_vars
SpecServeFair ==
    /\ SpecServe
    /\ WF_vars(OwnerApply)
    /\ \A t \in Tasks : WF_vars(Serve(t))

\* tasks that stamp message-ids from one counter
SpecWrapMethod == CounterInit /\ [][WrapMethodNext]_vars

\* one task that encodes rpcs on one Encoder
EncoderInit ==
    /\ EncoderFresh
    /\ CounterInitWith(1)
    /\ ReaderUnused /\ DecoderUnused /\ SessionFresh /\ CloseUnused
    /\ LaterUnused
SpecEncoder == EncoderInit /\ [][EncoderNext]_vars

\* a Decoder over a stream of one or two delimited replies
DecoderInit ==
    /\ \E k \in 1..2, first \in SeqsUpTo(EntryChars, MaxEntries),
          second \in {<<>>, <<"e">>}, gap \in Gaps, blank \in Paddings :
          NewDecoder([i \in 1..k |->
              DFrame(IF i = 1 THEN first ELSE second, gap, blank)])
    /\ ReaderUnused /\ CounterInitWith(0) /\ EncoderFresh /\ SessionFresh /\ CloseUnused
    /\ LaterUnused
SpecDecoder == DecoderInit /\ [][DecoderNext]_vars

\* a Decoder over a stream of one or two equal, delimited hello messages
HelloInit ==
    /\ \E k \in 1..2, hello \in SeqsUpTo(EntryChars, MaxEntries),
          gap \in Gaps, blank \in Paddings :
          NewDecoder([i \in 1..k |-> DFrame(hello, gap, blank)])
    /\ ReaderUnused /\ CounterInitWith(0) /\ EncoderFresh /\ SessionFresh /\ CloseUnused
    /\ LaterUnused
SpecHello == HelloInit /\ [][HelloNext]_vars

\* a Session on which ExecOne is called
SessionInit ==
    /\ SessionFresh /\ CloseUnused
    /\ LaterUnused
    /\ ReaderUnused /\ CounterInitWith(0) /\ EncoderFresh /\ DecoderUnused
SpecSession == SessionInit /\ [][SessionNext]_vars

\* a Session made by NewSession, or the zero Session, on which Close is called
CloseInit ==
    /\ held \in {NewSession, {}}
    /\ closeLog = <<>>
    /\ SessionFresh
    /\ ReaderUnused /\ CounterInitWith(0) /\ EncoderFresh /\ DecoderUnused
    /\ LaterUnused
SpecClose == CloseInit /\ [][CloseNext]_vars

\* the enumerations and ReplyError, before any call
EnumInit == CoreUnused /\ LaterUnused
SpecEnum == EnumInit /\ [][EnumNext]_vars

\* Dial and the connection it makes, before the call
ConnInit == CoreUnused /\ LaterUnused
SpecConn == ConnInit /\ [][ConnNext]_vars

\* NewSession, before the call
NewSessionInit == CoreUnused /\ LaterUnused
SpecNewSession == NewSessionInit /\ [][NewSessionNext]_vars

\* Dial with a keepalive interval, before it is called; the goroutine of
\* Keepalive runs when a case of its select can proceed, and SendRequest
\* on a closed client returns
SpecKeepalive == NewSessionInit /\ [][KeepaliveNext]_vars
SpecKeepaliveFair ==
    /\ SpecKeepalive
    /\ WF_vars(SelectTick) /\ WF_vars(SelectStop) /\ WF_vars(SendRequestFails)

\* NewSession(sshSession), before it is called
SpecNewSessionOver == NewSessionInit /\ [][NewSessionOverNext]_vars

\* a DeadlineReader, before its Read is called
DeadlineInit == CoreUnused /\ LaterUnused
SpecDeadline == DeadlineInit /\ [][DeadlineNext]_vars

\* the same where time passes, the timer fires when it is due and the
\* goroutine of Read runs when a case of its select can proceed
SpecDeadlineFair ==
    /\ SpecDeadline
    /\ WF_vars(DeadlineTick) /\ WF_vars(TimerFires) /\ WF_vars(SelectStep)

\* a ReplyReader, before it is made
ReplyInit == CoreUnused /\ LaterUnused
SpecReply == ReplyInit /\ [][ReplyNext]_vars


(***************************************************************************)
(* Properties of the Reader.                                               *)
(***************************************************************************)
\* the last Read that returned reported end-of-stream
ReturnedEOF == lastOp = "Read" /\ ret.err = EOF

\* the stream is one message: its trimmed content ends with the separator
\* and holds no other occurrence of it
OneMessageStream ==
    /\ HasSuffix(TrimRightFunc(stream), MessageSeparator)
    /\ Cardinality(Occurrences(stream, MessageSeparator)) = 1

\* what TestReader_Read_IOCopy expects of a file
WantOfStream == TrimSuffix(TrimRightFunc(stream), MessageSeparator)

BeforeFirstSeparator == SubSeq(stream, 1, Index(stream, MessageSeparator))

\* C2: for a stream whose first separator is at offset k, however it is
\* split across upstream reads, reading to end-of-stream returns the first k
\* bytes (up to trailing whitespace), and no byte at or after offset k is
\* returned before Reset.
C2_FirstSeparatorEndsMessage ==
    (drains = 0 /\ Index(stream, MessageSeparator) >= 0) =>
        /\ IsPrefix(out, BeforeFirstSeparator)
        /\ ReturnedEOF => TrimRightFunc(out) = TrimRightFunc(BeforeFirstSeparator)

\* C3: with no preserved error, a Read with a non-empty buffer that finds
\* the reader done and its buffer drained returns 0 bytes and end-of-stream
\* and reads nothing from the upstream, and leaves the reader as it was.
C3_EOFUntilReset ==
    [][(pc = "loop" /\ done /\ buffer = <<>> /\ rerr = Nil /\ plen > 0) =>
          /\ pc' = "idle"
          /\ ret' = [n |-> 0, err |-> EOF]
          /\ pos' = pos
          /\ done' /\ buffer' = <<>> /\ rerr' = Nil]_vars

\* C3 witness: a message was returned, and a later Read returned 0 bytes and
\* end-of-stream with the reader done and drained
C3_Witness ==
    /\ pc = "idle" /\ lastOp = "Read"
    /\ done /\ buffer = <<>> /\ rerr = Nil
    /\ ret = [n |-> 0, err |-> EOF]
    /\ Len(out) > 0
    /\ pos < Len(stream)

\* C4: when the caller drains to end-of-stream and then calls Reset, again
\* and again, drain i yields message i (after at most the whitespace that
\* padded the separator before it).
C4_DrainYieldsEachMessage ==
    (inStep /\ ReturnedEOF /\ drains < Len(msgs)) =>
        \E pad \in Paddings : out = pad \o msgs[drains + 1]

\* C5 as claimed: after an upstream read failed with a non-EOF error, every
\* Read that returns before Reset returns that first error.
C5_SameErrorUntilReset ==
    (pc = "idle" /\ lastOp = "Read" /\ firstErr # Nil) => ret.err = firstErr

\* C5 as amended: after an upstream read failed with a non-EOF error, every
\* Read that returns before Reset returns a non-EOF upstream error: that of
\* the latest upstream read that failed so.
C5_LatestErrorUntilReset ==
    (pc = "idle" /\ lastOp = "Read" /\ firstErr # Nil) =>
        /\ ret.err \in UpstreamErrors
        /\ ret.err = lastErr

\* C5 witness: the upstream failed twice, differently, and Read returned the
\* second error together with bytes
C5_Witness ==
    /\ pc = "idle" /\ lastOp = "Read"
    /\ firstErr = "E1" /\ lastErr = "E2"
    /\ ret.err = "E2"

\* C6: a Reset step leaves done false, the buffer empty and the preserved
\* error cleared, and takes nothing from the upstream.
C6_ResetClears ==
    [][drains' = drains + 1 =>
          /\ done' = FALSE /\ buffer' = <<>> /\ rerr' = Nil
          /\ pos' = pos /\ plan' = plan /\ stream' = stream]_vars

\* C6 witness: Reset was called mid-message on a reader that held an error
\* of the upstream
C6_Witness ==
    /\ lastOp = "Reset"
    /\ plan = <<"E2">>
    /\ 0 < pos /\ pos < Index(stream, MessageSeparator) + Len(MessageSeparator)
    /\ ~done /\ buffer = <<>> /\ rerr = Nil


(***************************************************************************)
(* Properties of the counter and of WrapMethod.                            *)
(***************************************************************************)
DigitValue(ch) == CHOOSE i \in 0..9 : Digit(i) = ch

RECURSIVE ParseUint(_)
\* the number a string of decimal digits denotes
ParseUint(ds) ==
    IF ds = <<>> THEN 0
    ELSE ParseUint(SubSeq(ds, 1, Len(ds) - 1)) * 10 + DigitValue(ds[Len(ds)])

\* a base-10 string as FormatUint writes it: no leading zero
IsBase10(ds) == Len(ds) >= 1 /\ (Len(ds) > 1 => ds[1] # "0")

\* task t is between calls and its last call was one of ops
Returned(t, ops) == t <= nTasks /\ task[t].op = "idle" /\ task[t].last \in ops

\* C7: the counter is linearizable.  With no Set, a Value or String that has
\* returned observed the sum of deltas k of some moment between its call and
\* its return: at least that of every Add that had returned when it was
\* called, at most that of the Adds called by the time it returned.  And no
\* Add is lost: with no Add in flight the value is the sum of all deltas.
C7_Linearizable ==
    ~setSeen =>
        /\ \A t \in Tasks :
              /\ Returned(t, {"Value"}) =>
                    \E k \in task[t].lo..sumBegun : task[t].resVal = k % UintMod
              /\ Returned(t, {"String"}) =>
                    /\ IsBase10(task[t].resStr)
                    /\ \E k \in task[t].lo..sumBegun :
                          ParseUint(task[t].resStr) = k % UintMod
        /\ (ownerPc = "select" /\ sumDone = sumBegun) =>
              /\ val = sumDone % UintMod
              /\ snap = val

\* C7 witness: two Adds by two tasks have returned and a Value called after
\* them returned their sum
C7_Witness ==
    /\ nTasks = 2 /\ ~setSeen
    /\ Returned(1, {"Add"})
    /\ Returned(2, {"Value"})
    /\ task[2].prev = "Add"
    /\ task[2].lo = 3
    /\ task[2].resVal = 3

\* C8: with no Set, any two WrapMethod calls stamp different message-ids,
\* and a call that starts after another has returned stamps a larger one.
C8_UniqueIncreasingIds ==
    ~setSeen =>
        \A i, j \in 1..Len(stamps) :
            /\ i < j => stamps[i].id # stamps[j].id
            /\ i <= stamps[j].seen =>
                  ParseUint(stamps[i].id) < ParseUint(stamps[j].id)

\* C9: with one task, WrapMethod called with the counter at c leaves it at
\* c + 1 (in the counter's unsigned arithmetic) and stamps the base-10 string
\* of that value; the first stamp of a process is "1"; and a Value read right
\* after WrapMethod is the number stamped.
C9_IncrementThenStamp ==
    nTasks = 1 =>
        /\ Returned(1, {"WrapMethod"}) =>
              /\ IsBase10(task[1].resStr)
              /\ ParseUint(task[1].resStr) = (task[1].c + 1) % UintMod
              /\ CounterValue = (task[1].c + 1) % UintMod
              /\ calls = 1 => task[1].resStr = <<"1">>
        /\ (Returned(1, {"Value"}) /\ task[1].prev = "WrapMethod") =>
              task[1].resVal = ParseUint(task[1].resStr)

\* C9 witness: the first call of the process was WrapMethod, which stamped
\* "1", and the Value read next returned 1
C9_Witness ==
    /\ nTasks = 1 /\ calls = 2
    /\ Returned(1, {"Value"}) /\ task[1].prev = "WrapMethod"
    /\ task[1].resStr = <<"1">>
    /\ task[1].resVal = 1


(***************************************************************************)
(* Properties of the Encoder.                                              *)
(***************************************************************************)
\* what the writer is to receive for one envelope
FrameOf(m) == RpcBytes(m) \o MessageSeparator \o <<"\n">>

\* C10: after a successful Encode the writer has received the complete rpc
\* element, then the separator, then one newline, as the last bytes written,
\* and nothing is left in the Encoder's buffer; and while every Encode has
\* succeeded, the writer holds exactly the frames of the calls, in order.
C10_FramedAndFlushed ==
    /\ encRet = Nil =>
          /\ sent # <<>>
          /\ HasSuffix(wire, FrameOf(sent[Len(sent)]))
          /\ wbuf = <<>> /\ werr = Nil
    /\ ~encFailed =>
          wire = Flatten([i \in 1..Len(sent) |-> FrameOf(sent[i])])

\* C10 witness: two Encode calls succeeded, of a payload and of an envelope,
\* and the writer holds the two frames
C10_Witness ==
    /\ encRet = Nil /\ ~encFailed
    /\ Len(sent) = 2
    /\ sent[1].id = <<"1">> /\ sent[2].id = <<"7">>
    /\ wire = FrameOf(sent[1]) \o FrameOf(sent[2])

\* C11: an Encode of a value that is already an envelope leaves the counter
\* as it was and, when it succeeds, sends that envelope as it is; an Encode
\* of any other value advances the counter by exactly one and, when it
\* succeeds, sends the value in an envelope stamped with the new count.
C11_WrapOrPassThrough ==
    [][encodes' = encodes + 1 =>
          IF encIn'.isMethod
          THEN /\ val' = val
               /\ encRet' = Nil =>
                     /\ sent'[Len(sent')] = encIn'
                     /\ HasSuffix(wire', FrameOf(encIn'))
          ELSE /\ val' = (val + 1) % UintMod
               /\ encRet' = Nil =>
                     /\ sent'[Len(sent')].body = encIn'.body
                     /\ ParseUint(sent'[Len(sent')].id) = val'
                     /\ sent'[Len(sent')] # encIn'
    ]_vars

\* C11 witness: a payload was encoded, which took the counter to 1, and then
\* an envelope, which left it there
C11_Witness ==
    /\ encodes = 2 /\ encRet = Nil
    /\ encIn \in Methods
    /\ Len(sent) = 2 /\ sent[2] = encIn
    /\ val = 1


(***************************************************************************)
(* Properties of the Decoder.                                              *)
(***************************************************************************)
\* the severity the spec gives an rpc-error by the text of its
\* error-severity: error, warning, and unknown for every other text
SeverityOf(c) ==
    CASE c = "e" -> "error" [] c = "w" -> "warning" [] OTHER -> "unknown"

\* call i of the log was a Decode that started at the start of message m
DecodeOf(i, m) ==
    /\ i <= Len(dlog) /\ m <= Len(dmsgs)
    /\ dlog[i].op = "Decode"
    /\ dlog[i].from = FrameOffset(m)

\* C12: a Decode of a reply into a Reply that held no errors returns a
\* reference to the first rpc-error of the reply, in document order, whose
\* severity is error, and nil exactly when the reply has none; either way the
\* Reply's Error list holds every rpc-error of the reply, in document order.
C12_FirstErrorWins ==
    \A i \in 1..Len(dlog), m \in 1..Len(dmsgs) :
        (DecodeOf(i, m) /\ (dlog[i].target = "reused" => i = 1)) =>
            LET content == dmsgs[m].content
                errs == {k \in 1..Len(content) : SeverityOf(content[k]) = "error"}
                this == dlog[i]
            IN  /\ Len(this.errs) = Len(content)
                /\ \A k \in 1..Len(content) : this.errs[k].at = this.from + 1 + k
                /\ errs = {} => this.ret = RetNil
                /\ errs # {} =>
                      /\ this.ret.kind = "ReplyError"
                      /\ this.ret.idx = SetMin(errs)

\* C13: on a stream of delimited replies, with no call of SkipSep, the i-th
\* Decode decodes reply i.
C13_DecodeSkipsSeparator ==
    (\A i \in 1..Len(dlog) : dlog[i].op = "Decode") =>
        \A i \in 1..Len(dlog) :
            (i <= Len(dmsgs) /\ \A m \in 1..i : "f" \notin {dmsgs[m].content[k] : k \in 1..Len(dmsgs[m].content)}) =>
                /\ dlog[i].from = FrameOffset(i)
                /\ dlog[i].ret.kind \in {"nil", "ReplyError"}
                /\ dlog[i].val = dmsgs[i].content

\* C14: on a stream of two equal hello messages, each followed by the
\* delimiter line and possibly by blank lines, the first two DecodeHello
\* calls succeed, each with the hello of its own message; call i starts
\* before message i, takes no byte of message i + 1 and ends right after the
\* delimiter line of message i; the two values are equal; and a third call
\* reports end-of-stream.
C14_TwoHellos ==
    Len(dmsgs) = 2 =>
        /\ \A i \in 1..Len(dlog) :
              i <= 2 =>
                  /\ dlog[i].ret = RetNil
                  /\ dlog[i].val = dmsgs[i].content
                  /\ dlog[i].from <= FrameOffset(i)
                  /\ FrameOffset(i) < dlog[i].pos /\ dlog[i].pos <= FrameOffset(i + 1)
                  /\ HasSuffix(SubSeq(dstream, 1, dlog[i].pos),
                               MessageSeparator \o <<"\n">>)
        /\ Len(dlog) >= 2 => dlog[1].val = dlog[2].val
        /\ Len(dlog) >= 3 => dlog[3].ret = Ret("EOF", 0)

\* C14 witness: two hellos with blank lines between them were decoded and a
\* third call reported end-of-stream
C14_Witness ==
    /\ Len(dmsgs) = 2 /\ Len(dlog) = 3
    /\ dmsgs[1].content # <<>>
    /\ dstream # TrimRightFunc(SubSeq(dstream, 1, Len(dstream) - 1)) \o <<"\n">>
    /\ dlog[2].ret = RetNil /\ dlog[2].val = dmsgs[2].content
    /\ dlog[3].ret.kind = "EOF"


(***************************************************************************)
(* Properties of Session.ExecOne.                                          *)
(***************************************************************************)
\* the encode or decode goroutine of call c is using the session's encoder,
\* decoder or pipes
Active(c) ==
    \/ call[c].enc \in {"encoding", "sep"}
    \/ call[c].dec = "decoding"

\* call c has written its rpc and then its separator
FullyEncoded(c) == call[c].wrote = <<"rpc", "sep">>

\* C15: within one ExecOne call the decode stage starts only after the
\* encode stage has returned nil, having written the rpc and then the
\* separator; a call whose encode stage failed or was cancelled has no
\* decode stage and has not used the decoder.
C15_EncodeBeforeDecode ==
    \A c \in Calls :
        /\ call[c].dec # "none" =>
              /\ call[c].enc = "done"
              /\ call[c].encRes = Nil
              /\ FullyEncoded(c)
        /\ (call[c].enc = "done" /\ call[c].encRes # Nil) =>
              /\ call[c].dec = "none"
              /\ call[c].got = 0
        /\ call[c].endedAt = "encode" =>
              /\ call[c].dec = "none"
              /\ call[c].got = 0

\* C15 witness: one call has decoded a reply after its encoding, and another
\* call has ended with the error of its encoding
C15_Witness ==
    \E c, d \in Calls :
        /\ call[c].got # 0
        /\ call[d].orch = "done"
        /\ call[d].res = "EW"

\* C16: in no state are the encode or decode goroutines of two different
\* ExecOne calls using the session at once.
C16_NoOverlap ==
    \A c, d \in Calls : (c # d /\ Active(c)) => ~Active(d)

\* C17: a call whose context was cancelled while its encode or decode stage
\* was in progress delivers the cancellation reason; and ExecOne delivers
\* nothing but a stage's own result or the cancellation reason.
C17_CancelWins ==
    \A c \in Calls :
        call[c].orch = "done" =>
            /\ call[c].inStage => call[c].res = Canceled
            /\ call[c].res \in {call[c].encRes, call[c].decRes, Canceled}

\* C18: a call that delivered nil has decoded its reply into the caller's
\* reply and left the caller's method as it was.
C18_ReplyIntoReply ==
    \A c \in Calls :
        (call[c].orch = "done" /\ call[c].res = Nil /\ call[c].got # 0) =>
            /\ call[c].reply = call[c].got
            /\ call[c].method = 0

\* C19: once a decode stage has read a reply and no decode is running, the
\* session's Reader is not done; and of ExecOne calls made one after the
\* other, each one that ends in its decode stage without a failure of the
\* pipe has decoded a reply.
C19_ResetAfterDecode ==
    /\ ((\E c \in Calls : call[c].got # 0) /\
        (\A c \in Calls : call[c].dec # "decoding")) => ~rdDone
    /\ \A c \in Calls :
          (/\ \A d \in 1..c : call[d].serial
           /\ call[c].orch = "done"
           /\ call[c].endedAt = "decode"
           /\ call[c].res \notin {Canceled, "ER"}) => call[c].got # 0

(***************************************************************************)
(* Properties of Session.Close.                                            *)
(***************************************************************************)
\* C20: every Close of a Session made by NewSession closes the pipe, then
\* the ssh session, then the ssh client, whichever of them fail, and
\* returns the error of the first of them, in that order, that failed: nil
\* only if none failed.
C20_CloseAllInOrder ==
    \A i \in 1..Len(closeLog) :
        held = NewSession =>
            LET this == closeLog[i]
                failed == {k \in 1..Len(Resources) :
                              this.errs[Resources[k]] # Nil}
            IN  /\ this.tried = Resources
                /\ this.ret = IF failed = {} THEN Nil
                              ELSE CloseError[Resources[SetMin(failed)]]
                /\ this.ret = Nil <=> failed = {}

\* C20 witness: a Close whose pipe and ssh session both failed to close has
\* gone on to close the ssh client and returned the pipe's error
C20_Witness ==
    \E i \in 1..Len(closeLog) :
        /\ closeLog[i].errs.writeCloser # Nil
        /\ closeLog[i].errs.sshSession # Nil
        /\ closeLog[i].tried = Resources
        /\ closeLog[i].ret = CloseError.writeCloser

(***************************************************************************)
(* Properties of NewSession.                                               *)
(***************************************************************************)
\* the places of the log at which the call ev succeeded
Succeeded(ev) ==
    {i \in 1..Len(hs.log) : hs.log[i].ev = ev /\ hs.log[i].ok}

\* C21: in NewSession, the default hello is written to the outbound pipe
\* only after the netconf subsystem was requested, both pipes were set up
\* and the server's hello was decoded, each with success; what is written is
\* a prefix of the default hello; and when the request of the subsystem, the
\* setup of a pipe or the decoding of the hello fails, NewSession returns
\* the error and the pipe has received no byte.
C21_HelloAfterHandshake ==
    hs # NoHello =>
        /\ IsPrefix(hs.wrote, DefaultHelloMessage)
        /\ \A i \in 1..Len(hs.log) :
              hs.log[i].ev = "Copy" =>
                  \A ev \in {"RequestSubsystem", "StdoutPipe", "StdinPipe",
                             "DecodeHello"} :
                      \E j \in Succeeded(ev) : j < i
        /\ (\E i \in Succeeded("DecodeHello") : TRUE) =>
              DecodeHelloOf(hs.server) = RetNil
        /\ hs.wrote # <<>> => \E i \in 1..Len(hs.log) : hs.log[i].ev = "Copy"
        /\ (\E i \in 1..Len(hs.log) :
               /\ hs.log[i].ev \in {"Dial", "NewSession", "RequestSubsystem",
                                    "StdoutPipe", "StdinPipe", "DecodeHello"}
               /\ ~hs.log[i].ok) =>
              /\ hs.wrote = <<>>
              /\ hs.op = "return" /\ hs.ret = "error"
        /\ hs.ret = "session" => hs.wrote = DefaultHelloMessage

\* C21 witnesses: a construction that wrote the whole hello, after the
\* server's hello was decoded
C21_Witness ==
    /\ hs # NoHello
    /\ hs.ret = "session" /\ hs.wrote = DefaultHelloMessage
    /\ Succeeded("DecodeHello") # {}

(***************************************************************************)
(* Properties of Dial and DeadlineConn.                                    *)
(***************************************************************************)
\* the entries of the log made by the last call on the conn
LastCallLog ==
    LET k == IF dconn.err = SetDeadlineError THEN 1
             ELSE IF dconn.wrapped THEN 2 ELSE 1
    IN  SubSeq(dconn.log, Len(dconn.log) - k + 1, Len(dconn.log))

\* C22: a Read or Write of a DeadlineConn first sets the deadline of its
\* direction on the underlying connection, to the time of the call plus the
\* timeout of the direction; when that fails the call returns 0 bytes and the
\* error and the underlying Read or Write is not made, and otherwise the
\* underlying call follows at once and its result is returned.
C22_DeadlineBeforeIO ==
    (dconn.op \in Directions /\ dconn.wrapped) =>
        LET made == LastCallLog
            timeout == IF dconn.op = "Read" THEN dconn.ReadTimeout
                       ELSE dconn.WriteTimeout
        IN  /\ made[1].ev = SetDeadlineOf(dconn.op)
            /\ made[1].t = dconn.at + timeout
            /\ IF made[1].err # Nil
               THEN /\ Len(made) = 1
                    /\ dconn.n = 0 /\ dconn.err = made[1].err
               ELSE /\ Len(made) = 2
                    /\ made[2].ev = dconn.op
                    /\ dconn.n = made[2].n /\ dconn.err = made[2].err
            /\ \A i \in 1..Len(dconn.log) :
                  dconn.log[i].ev \in Directions =>
                      /\ i > 1
                      /\ dconn.log[i - 1].ev = SetDeadlineOf(dconn.log[i].ev)
                      /\ dconn.log[i - 1].err = Nil

\* C22 witness: a Write whose SetWriteDeadline failed, after a Read that went
\* through
C22_Witness ==
    /\ dconn.op = "Write" /\ dconn.wrapped
    /\ dconn.err = SetDeadlineError /\ dconn.n = 0
    /\ \E i \in 1..Len(dconn.log) : dconn.log[i].ev = "Read"

\* C23: on the connection Dial made, no read deadline is ever set when
\* ReadTimeout is zero and no write deadline is ever set when WriteTimeout
\* is zero.
C23_ZeroTimeoutNoDeadline ==
    connLive =>
        \A i \in 1..Len(dconn.log) :
            /\ dconn.log[i].ev = "SetReadDeadline" => dconn.ReadTimeout # 0
            /\ dconn.log[i].ev = "SetWriteDeadline" => dconn.WriteTimeout # 0

(***************************************************************************)
(* Properties of DeadlineReader.                                           *)
(***************************************************************************)
DeadlineReturned == dr.op = "Read" /\ dr.main = "returned"

\* Read returned what the underlying Read returned
ReturnedInner == dr.ret.err # "DeadlineError" /\ dr.ret.n = dr.n /\ dr.ret.err = dr.err

\* Read returned a DeadlineError with Op "read" and the deadline of the reader
ReturnedDeadlineError ==
    /\ dr.ret.err = "DeadlineError"
    /\ dr.ret.Op = "read" /\ dr.ret.Deadline = dr.deadline

FirstReply(s) == SubSeq(s, 1, Index(s, MessageSeparator))

\* C25: on a session stream that holds a reply and its separator, every
\* Read of a ReplyReader made by NewReplyReader brings the reading of the
\* reply forward, by delivering a byte, by taking a byte from the session or
\* by returning an error; the bytes delivered are a prefix of the reply, so
\* none is of the separator; end-of-stream is returned only once all bytes of
\* the reply are delivered; and after the first end-of-stream every Read
\* returns end-of-stream and no byte.
C25_ExactlyOneReply ==
    (rr.op = "Read" /\ Occurrences(rr.src, MessageSeparator) # {}) =>
        /\ IsPrefix(rr.delivered, FirstReply(rr.src))
        /\ rr.ret = EOF => rr.delivered = FirstReply(rr.src)
        /\ rr.afterEOF
        /\ (rr.n = 0 /\ rr.ret = Nil) => rr.tookNow > 0

(***************************************************************************)
(* Properties of the enumerations and of ReplyError.                       *)
(***************************************************************************)
\* the text between its first and its last byte that is not whitespace, in
\* lower case
Canon(text) ==
    LET ns == {i \in 1..Len(text) : ~IsSpace(text[i])}
    IN  IF ns = {} THEN <<>>
        ELSE ToLower(SubSeq(text, SetMin(ns), SetMax(ns)))

\* the values of the enumeration whose table entry is x
TableIndex(name, x) ==
    {k \in 0..(Len(Enums[name].table) - 1) : Enums[name].table[k + 1] = x}

UnknownText == <<"u", "n", "k", "n", "o", "w", "n">>

\* each table starts with the empty string, increases strictly, and is
\* searched with success for each of its entries
TablesInOrder ==
    \A name \in EnumNames :
        LET t == Enums[name].table
        IN  /\ t[1] = <<>>
            /\ \A i, j \in 1..Len(t) : i < j => Less(t[i], t[j])
            /\ \A k \in 1..Len(t) : SearchStrings(t, t[k]) = k - 1

\* C26: whenever an enumeration is used, each of the three tables starts
\* with the empty string of the zero variant and is in strictly increasing
\* order, and the binary search for an entry gives the value that indexes it.
C26_TablesSorted ==
    ecall.op \in {"UnmarshalText", "String"} => TablesInOrder

\* C26 witness: UnmarshalText has found the last entry of the longest table
C26_Witness ==
    /\ ecall.op = "UnmarshalText"
    /\ ecall.name = "ErrorTag"
    /\ ecall.res.err = Nil
    /\ ecall.res.v = Len(errorTagStringArray) - 1
    /\ ecall.text = errorTagStringArray[Len(errorTagStringArray)]

C28_MissIsTypedError ==
    ecall.op = "UnmarshalText" =>
        LET hit == TableIndex(ecall.name, Canon(ecall.text)) # {}
        IN  /\ ecall.res.err = Nil <=> hit
            /\ ~hit =>
                  /\ ecall.res.v = Enums[ecall.name].unknown
                  /\ ecall.res.err = "UnmarshalTextError"
                  /\ ecall.res.Type = ecall.name
                  /\ ecall.res.Value = ecall.text

\* C28 witness: a miss on a text with whitespace around it, which the error
\* holds untrimmed
C28_Witness ==
    /\ ecall.op = "UnmarshalText"
    /\ ecall.name = "ErrorSeverity"
    /\ ecall.text = <<" ", "e", "r", "r", "o", "r", "a", "\n">>
    /\ ecall.res.err = "UnmarshalTextError"
    /\ ecall.res.Value = ecall.text

\* C29: a text that is a table entry but for whitespace around it and the
\* case of its letters parses without error to the value of that entry, and
\* a text of whitespace only, or of nothing, to the zero variant.
C29_TrimAndCase ==
    ecall.op = "UnmarshalText" =>
        /\ \A k \in TableIndex(ecall.name, Canon(ecall.text)) :
              /\ ecall.res.err = Nil
              /\ ecall.res.v = k
        /\ (\A i \in 1..Len(ecall.text) : IsSpace(ecall.text[i])) =>
              /\ ecall.res.err = Nil
              /\ ecall.res.v = 0

\* C29 witness: an upper-case entry with whitespace on both sides has parsed
C29_Witness ==
    /\ ecall.op = "UnmarshalText"
    /\ ecall.name = "ErrorType"
    /\ ecall.text = <<"\n", "R", "P", "C", " ">>
    /\ ecall.res.err = Nil
    /\ ecall.res.v = 3

\* C30: Decode of a reply returns the first rpc-error of severity error, and
\* its Error() is its message or, without one, its severity, its tag and
\* its bad-element with a space between them.
C30_ErrorText ==
    ecall.op = "Error" =>
        LET xs == ecall.xs
            errs == {k \in 1..Len(xs) :
                        Canon(xs[k].severity) = <<"e", "r", "r", "o", "r">>}
            first == xs[SetMin(errs)]
            tagText == IF TableIndex("ErrorTag", Canon(first.tag)) = {}
                       THEN UnknownText ELSE Canon(first.tag)
        IN  IF errs = {} THEN ecall.res.ret = RetNil
            ELSE /\ ecall.res.ret = Ret("ReplyError", SetMin(errs))
                 /\ ecall.res.text =
                       IF first.message # <<>> THEN first.message
                       ELSE <<"e", "r", "r", "o", "r", " ">> \o tagText \o
                            <<" ">> \o first.badElement
(***************************************************************************)
(* Further properties of Session.ExecOne.                                  *)
(***************************************************************************)
\* C31: whenever the encode goroutine of a call has ended after it wrote
\* its rpc, and no write of it failed, the rpc is followed on the transport
\* by the delimiter, also when the context is cancelled between the two.
C31_RpcIsFramed ==
    \A c \in Calls :
        (call[c].enc = "done" /\ call[c].wrote # <<>> /\ call[c].encRes # "EW")
            => call[c].wrote = <<"rpc", "sep">>


\* C33: a call of ExecOne whose context is cancelled already delivers the
\* context's error, writes nothing to the transport and never starts the
\* decode goroutine, so the decoder is not called.
C33_CancelledBeforeCall ==
    \A c \in Calls :
        call[c].pre =>
            /\ call[c].wrote = <<>>
            /\ call[c].enc = "done" /\ call[c].encRes = Canceled
            /\ call[c].dec = "none" /\ call[c].got = 0
            /\ call[c].orch = "done" => call[c].res = Canceled

\* C33 witness: such a call has delivered, through the channel of the
\* encode goroutine, while the server has another call's request
C33_Witness ==
    \E c \in Calls :
        /\ call[c].pre /\ call[c].orch = "done"
        /\ call[c].res = Canceled /\ call[c].endedAt = "encode"
        /\ Requests # {}


\* what a channel of a goroutine that has ended holds, given its result:
\* the one error it sent, or nothing when it was closed on success
ChannelOf(res) == IF res = Nil THEN <<>> ELSE <<res>>

\* C32: each of the three channels of an ExecOne call is sent at most one
\* value; a goroutine that has ended with success has closed its channel
\* empty, and one that ended with an error has left exactly that error on
\* it; and no goroutine of the call is ever held in the send of its result:
\* it is in the transport I/O of its stage, waits in a select of the
\* orchestrator, or has ended, whether or not anyone receives and whether or
\* not the context is cancelled.
C32_SingleShotChannels ==
    \A c \in Calls :
        /\ Len(call[c].encCh) <= 1 /\ Len(call[c].decCh) <= 1
        /\ Len(call[c].errCh) <= 1
        /\ call[c].enc \in {"none", "encoding", "sep", "done"}
        /\ call[c].dec \in {"none", "decoding", "done"}
        /\ call[c].orch \in {"idle", "sel1", "sel2", "done"}
        /\ call[c].enc = "done" => call[c].encCh = ChannelOf(call[c].encRes)
        /\ call[c].dec = "done" => call[c].decCh = ChannelOf(call[c].decRes)
        /\ call[c].orch = "done" => call[c].errCh = ChannelOf(call[c].res)
        /\ call[c].enc \in {"none", "encoding", "sep"} => call[c].encCh = <<>>
        /\ call[c].dec \in {"none", "decoding"} => call[c].decCh = <<>>
        /\ call[c].orch \in {"idle", "sel1", "sel2"} => call[c].errCh = <<>>

\* C32 witness: a call was cancelled and delivered the context's error while
\* its encode goroutine was writing; the goroutine then ended with a write
\* error that nobody receives
C32_Witness ==
    \E c \in Calls :
        /\ call[c].orch = "done" /\ call[c].errCh = <<Canceled>>
        /\ call[c].inStage
        /\ call[c].enc = "done" /\ call[c].encCh = <<"EW">>

\* the errors of the transport that an ExecOne call can deliver: a failed
\* write of the encode stage and a failed read of the decode stage
TransportErrors == {ErrWrite, "ER"}

\* C38: once an ExecOne call has delivered an I/O error of the transport,
\* the session is closing: its transport has been closed, or an ExecOne
\* call made after that one writes nothing to the transport.
C38_IOErrorCloses ==
    \A c \in Calls :
        (/\ c + 1 \in Calls
         /\ call[c].orch = "done" /\ call[c].res \in TransportErrors
         /\ call[c + 1].serial)
            => (closeLog # <<>> \/ call[c + 1].wrote = <<>>)

(***************************************************************************)
(* Further properties of DeadlineReader.Read.                              *)
(***************************************************************************)
\* C34: once Read has returned a DeadlineError its helper never ends: it is
\* about to read, is in the upstream read, which it can still complete, or
\* is in the send on ch, which nothing receives any more since the only
\* receive is the select that Read has left.
C34_HelperOutlivesRead ==
    (DeadlineReturned /\ ReturnedDeadlineError)
        => dr.helper \in {"started", "reading", "sending"}

\* C34 witness: Read returned a DeadlineError with n = 0, and the helper has
\* completed an upstream read of some bytes, after the timer fired, and is
\* in its send
C34_Witness ==
    /\ DeadlineReturned /\ ReturnedDeadlineError
    /\ dr.helper = "sending" /\ dr.firedAtDone
    /\ dr.n > 0 /\ dr.ret.n = 0

(***************************************************************************)
(* Further properties of Decoder.SkipSep.                                  *)
(***************************************************************************)
\* the most lines of a stream that SkipSep is called on
MaxLines == 2

\* the lines of such a stream, without their newline: the delimiter, the
\* delimiter between spaces, other text, nothing
SkipLines == {MessageSeparator, <<" ">> \o MessageSeparator \o <<" ">>,
              <<"x">>, <<>>}

\* the streams: up to MaxLines lines, each ended by a newline, except that
\* the last one may lack it
SkipStreams ==
    {Flatten([i \in 1..Len(ls) |->
                 ls[i] \o (IF i < Len(ls) \/ nl THEN <<"\n">> ELSE <<>>)]) :
        ls \in UNION {[1..j -> SkipLines] : j \in 1..MaxLines},
        nl \in BOOLEAN}

\* a Decoder over one of these streams, on which SkipSep is called
SkipInit ==
    /\ \E bytes \in SkipStreams :
          /\ dmsgs = <<>> /\ dstream = bytes /\ dpos = 0
          /\ dxerr = RetNil /\ dErrs = <<>> /\ dlog = <<>>
    /\ ReaderUnused /\ CounterInitWith(0) /\ EncoderFresh /\ SessionFresh /\ CloseUnused
    /\ LaterUnused
SkipNext == SkipSep
SpecSkipSep == SkipInit /\ [][SkipNext]_vars

RECURSIVE DelimiterLine(_, _)
\* the scan for the delimiter line from offset from, by lines: a line ends
\* with its newline or with the stream; the result is nil and the end of
\* the first line that is, trimmed, the delimiter, or end-of-stream and the
\* end of the stream if there is no such line
DelimiterLine(s, from) ==
    LET nls == After(s, from, "\n")
        upto == IF nls = {} THEN Len(s) ELSE SetMin(nls)
    IN  IF TrimSpace(SubSeq(s, from + 1, upto)) = MessageSeparator
        THEN [err |-> RetNil, pos |-> upto]
        ELSE IF nls = {} THEN [err |-> Ret("EOF", 0), pos |-> Len(s)]
        ELSE DelimiterLine(s, upto)

\* C35: SkipSep returns nil exactly when the stream from its offset has a
\* line that is, trimmed, the delimiter, the last line without a newline
\* included; it then stands at the end of the first such line; otherwise it
\* returns the error that ended the scan, end-of-stream.
C35_SkipSepFindsDelimiterLine ==
    \A i \in 1..Len(dlog) :
        dlog[i].op = "SkipSep" =>
            /\ dlog[i].ret = DelimiterLine(dstream, dlog[i].from).err
            /\ dlog[i].pos = DelimiterLine(dstream, dlog[i].from).pos

(***************************************************************************)
(* Further properties of Reader.Read.                                      *)
(***************************************************************************)
\* C36: whenever Read returns one or more bytes, the Reader is done, that
\* is, it has found the delimiter at the end of what it absorbed, or the
\* last read of the upstream in this call returned end-of-stream or an
\* error; Read hands out no byte while neither is the case.
C36_AbsorbsBeforeYielding ==
    [][(pc = "loop" /\ pc' = "idle" /\ ret'.n > 0) => (done \/ lerr # Nil)]_vars

\* C36 witness: a Read returned bytes of a message whose delimiter the
\* Reader has found, from an upstream that has more to deliver and has not
\* failed
C36_Witness ==
    /\ lastOp = "Read" /\ ret.n > 0 /\ ret.err = Nil
    /\ done /\ rerr = Nil /\ pos < Len(stream)

(***************************************************************************)
(* Further properties of NewSession.                                       *)
(***************************************************************************)
\* C37: when NewSession returns, the Session pointer is not nil exactly
\* when the error is nil; and when it returns an error, whichever step
\* failed, the ssh session has been closed, and so has the pipe to the
\* server if it was set up.
C37_SessionIffNoError ==
    (hs # NoHello /\ hs.op = "return") =>
        /\ (hs.ret = "session") <=> ~hs.err
        /\ hs.err =>
              /\ \E i \in 1..Len(hs.log) : hs.log[i].ev = "sshSession.Close"
              /\ Succeeded("StdinPipe") # {} =>
                    \E i \in 1..Len(hs.log) : hs.log[i].ev = "writeCloser.Close"

(***************************************************************************)
(* Properties of Client and its keepalive goroutine.                       *)
(***************************************************************************)
\* Close has returned
ClientClosed == clientLive /\ dconn.closing = "returned"

\* C39: once Close has returned, the keepalive goroutine ends at some time
\* and no keepalive request goes out any more; and a Client that Dial made
\* with a Keepalive of zero has no ticker and no keepalive goroutine.
C39_KeepaliveStops ==
    /\ [](clientLive =>
            /\ ~dconn.sentAfterClose
            /\ dconn.Keepalive = 0 =>
                  (dconn.task = "none" /\ dconn.ticker = "nil" /\ dconn.sent = 0))
    /\ (ClientClosed ~> (ClientClosed /\ dconn.task \in {"none", "exited"}))

\* C39 witness: a Client with a keepalive sent a request, Close returned
\* and the goroutine has ended
C39_Witness ==
    /\ ClientClosed /\ dconn.Keepalive # 0
    /\ dconn.sent > 0 /\ dconn.task = "exited"

(***************************************************************************)
(* Further properties of the counter.                                      *)
(***************************************************************************)
\* task t is inside a call of the counter
InCall(t) == t <= nTasks /\ task[t].op # "idle"

\* C40: the owner returns only when the context was cancelled; once it has
\* returned it stays so and no call of Value, String, Add or Set returns
\* any more, the calls made after it included; and while the owner has not
\* returned, every call returns at some time.
C40_OwnerServesUntilCancelled ==
    /\ [](ownerPc = "exited" => ctxDone)
    /\ [][ownerPc = "exited" =>
            /\ ownerPc' = "exited"
            /\ \A t \in Tasks : InCall(t) => task'[t] = task[t]]_vars
    /\ \A t \in Tasks : InCall(t) ~> (~InCall(t) \/ ownerPc = "exited")

\* C40 witness: a call returned while the owner ran, and after the owner
\* had returned a task made a call, in which it waits
C40_Witness ==
    /\ ownerPc = "exited" /\ calls = ServeCalls
    /\ \E t \in Tasks : InCall(t)
    /\ \E t \in Tasks : task[t].last # "none"

==========================================================================
